---- MODULE Spec2Model ----
(***************************************************************************)
(* Model of the OCR-text-to-student-records pipeline:                      *)
(*   OCRService            (src/unnamed/part_001)                          *)
(*   TableDetectionService (src/unnamed/part_000)                          *)
(*                                                                         *)
(* A string is a sequence of Unicode code points (UTF-16 code units; all   *)
(* characters used here lie in the Basic Multilingual Plane).  A number    *)
(* is an integer count of thousandths (Scale), so 15.5 is 15500.           *)
(* Column and row indices of the table structure are 0-based as in the     *)
(* source; sequences are 1-based, so cell (r, c) is grid[r + 1][c + 1].    *)
(***************************************************************************)
EXTENDS Integers, Sequences, FiniteSets, TLC

(***************************************************************************)
(* Characters                                                              *)
(***************************************************************************)
NL == 10
SP == 32
COMMA == 44
DOT == 46
PIPE == 124

\* JavaScript \s (WhiteSpace and LineTerminator)
WhiteSpace ==
    {9, 10, 11, 12, 13, 32, 160, 5760, 8232, 8233, 8239, 8287, 12288, 65279}
        \cup (8192..8202)

IsSpace(c) == c \in WhiteSpace
\* \d
Digits == 48..57
IsDigit(c) == c \in Digits
\* \w
IsWord(c) == c \in (48..57) \cup (65..90) \cup (97..122) \cup {95}
\* [U+0600-U+06FF]
Arabic == 1536..1791
IsArabic(c) == c \in Arabic
IsSep(c) == c = DOT \/ c = COMMA

(***************************************************************************)
(* String primitives                                                       *)
(***************************************************************************)
\* String.prototype.includes
Includes(s, k) ==
    \E i \in 1..(Len(s) - Len(k) + 1) : \A j \in 1..Len(k) : s[i + j - 1] = k[j]

\* index (1-based) of the first occurrence of k in s, 0 if none (indexOf + 1)
IndexOf(s, k) ==
    LET hits == {i \in 1..(Len(s) - Len(k) + 1) :
                    \A j \in 1..Len(k) : s[i + j - 1] = k[j]}
    IN  IF hits = {} THEN 0 ELSE CHOOSE i \in hits : \A h \in hits : i <= h

\* String.prototype.trim
Trim(s) ==
    LET keep == {i \in 1..Len(s) : ~IsSpace(s[i])}
    IN  IF keep = {} THEN << >>
        ELSE SubSeq(s, CHOOSE i \in keep : \A h \in keep : i <= h,
                       CHOOSE i \in keep : \A h \in keep : i >= h)

\* String.prototype.toLowerCase on the characters of the model's alphabet
ToLowerCase(s) == [i \in 1..Len(s) |-> IF s[i] \in 65..90 THEN s[i] + 32 ELSE s[i]]

\* end (inclusive index) of the maximal run of characters of the class (a set
\* of code points) starting at position p; p - 1 when s[p] is not of the class
RunEnd(s, p, class) ==
    LET stops == {i \in p..Len(s) : s[i] \notin class}
    IN  IF stops = {} THEN (IF p > Len(s) THEN p - 1 ELSE Len(s))
        ELSE (CHOOSE i \in stops : \A h \in stops : i <= h) - 1

\* String.prototype.split(sep) for a one-character separator
RECURSIVE SplitChar(_, _)
SplitChar(s, sep) ==
    LET hits == {i \in 1..Len(s) : s[i] = sep}
    IN  IF hits = {} THEN <<s>>
        ELSE LET i == CHOOSE h \in hits : \A g \in hits : h <= g
             IN  <<SubSeq(s, 1, i - 1)>> \o SplitChar(SubSeq(s, i + 1, Len(s)), sep)

\* Array.prototype.join
RECURSIVE Join(_, _)
Join(xs, sep) ==
    IF xs = << >> THEN << >>
    ELSE IF Len(xs) = 1 THEN xs[1]
    ELSE xs[1] \o sep \o Join(Tail(xs), sep)

NonEmpty(s) == Len(s) > 0
TrimNonEmpty(s) == Len(Trim(s)) > 0

(***************************************************************************)
(* OCRService.normalizeArabicNumber                                        *)
(***************************************************************************)
\* numeralMap: the ten Arabic-Indic digits U+0660..U+0669 to "0".."9"
numeralMap(c) == c - 1632 + 48

\* text.replace(/[U+0660-U+0669]/g, d => numeralMap[d] || d)
normalizeArabicNumber(text) ==
    [i \in 1..Len(text) |->
        IF text[i] \in 1632..1641 THEN numeralMap(text[i]) ELSE text[i]]

\* extractedText.split("\n").map(l => normalize(l.trim())).filter(l => l.length > 0)
SplitLines(extractedText) ==
    LET raw == SplitChar(extractedText, NL)
        mapped == [i \in 1..Len(raw) |-> normalizeArabicNumber(Trim(raw[i]))]
    IN  SelectSeq(mapped, NonEmpty)

(***************************************************************************)
(* Numbers                                                                 *)
(***************************************************************************)
\* thousandths: the resolution at which a JavaScript number is held
Scale == 1000
\* null (value: number | null)
NULL == -1

RECURSIVE DigitsValue(_)
DigitsValue(ds) ==
    IF ds = << >> THEN 0
    ELSE 10 * DigitsValue(SubSeq(ds, 1, Len(ds) - 1)) + (ds[Len(ds)] - 48)

\* parseInt(digits, 10) of a non-empty run of digits
ParseInt(ds) == DigitsValue(ds) * Scale

\* parseFloat of "<int>" or "<int>.<frac>"; the fraction is held to three digits
ParseFloat(int, frac) ==
    LET f3 == [i \in 1..3 |-> IF i <= Len(frac) THEN frac[i] ELSE 48]
    IN  DigitsValue(int) * Scale + DigitsValue(f3)

\* parseFloat(x.toFixed(2)): round to hundredths
ToFixed2(x) == ((x + 5) \div 10) * 10

RECURSIVE NatToString(_)
NatToString(n) ==
    IF n < 10 THEN <<48 + n>> ELSE NatToString(n \div 10) \o <<48 + (n % 10)>>

\* the template-literal rendering `${n}` of a number
NumberToString(x) ==
    LET ip == x \div Scale
        fp == x % Scale
        f3 == <<48 + (fp \div 100), 48 + ((fp \div 10) % 10), 48 + (fp % 10)>>
        last == CHOOSE k \in 0..3 :
                    /\ \A j \in (k + 1)..3 : f3[j] = 48
                    /\ (k = 0 \/ f3[k] # 48)
    IN  IF fp = 0 THEN NatToString(ip)
        ELSE NatToString(ip) \o <<DOT>> \o SubSeq(f3, 1, last)

(***************************************************************************)
(* Regular expressions of the two services                                 *)
(***************************************************************************)
\* /^\s*\d+\s/.test(s)
LeadingIntSpace(s) ==
    LET a == RunEnd(s, 1, WhiteSpace)
        d == RunEnd(s, a + 1, Digits)
    IN  d > a /\ d + 1 <= Len(s) /\ IsSpace(s[d + 1])

\* /^\d+/.test(s)
StartsWithDigit(s) == Len(s) > 0 /\ IsDigit(s[1])

\* /^\|\s*\d+/.test(s)
PipeThenDigit(s) ==
    /\ Len(s) > 0
    /\ s[1] = PIPE
    /\ LET e == RunEnd(s, 2, WhiteSpace) IN e + 1 <= Len(s) /\ IsDigit(s[e + 1])

\* [U+0600-U+06FF\s] and [\|\s]
ArabicOrSpace == Arabic \cup WhiteSpace
SpaceOrPipe == WhiteSpace \cup {PIPE}
IsArabicOrSpace(c) == c \in ArabicOrSpace

\* /^[U+0600-U+06FF\s]+$/.test(s)
ArabicOnly(s) == Len(s) > 0 /\ \A i \in 1..Len(s) : IsArabicOrSpace(s[i])

\* /[U+0600-U+06FF]/.test(s)
HasArabic(s) == \E i \in 1..Len(s) : IsArabic(s[i])

\* /\d/.test(s)
HasDigit(s) == \E i \in 1..Len(s) : IsDigit(s[i])

\* /\d{1,2}[.,]\d{2}/.test(s)
HasMarkPattern(s) ==
    \E i \in 1..(Len(s) - 3) :
        IsDigit(s[i]) /\ IsSep(s[i + 1]) /\ IsDigit(s[i + 2]) /\ IsDigit(s[i + 3])

\* \b between s[i - 1] and s[i]  (i in 1..Len(s) + 1)
Boundary(s, i) ==
    LET before == i > 1 /\ IsWord(s[i - 1])
        after == i <= Len(s) /\ IsWord(s[i])
    IN  before # after

\* the rest of /(?:[.,]\d{1,2})?\b/ from position q, tried greedily with
\* backtracking; the index after the match, 0 when it fails
MarkTail(s, q) ==
    IF q + 1 <= Len(s) /\ IsSep(s[q]) /\ IsDigit(s[q + 1])
    THEN IF q + 2 <= Len(s) /\ IsDigit(s[q + 2]) /\ Boundary(s, q + 3) THEN q + 3
         ELSE IF Boundary(s, q + 2) THEN q + 2
         ELSE IF Boundary(s, q) THEN q ELSE 0
    ELSE IF Boundary(s, q) THEN q ELSE 0

\* /\b(\d{1,2}(?:[.,]\d{1,2})?)\b/ anchored at p
MarkMatchEnd(s, p) ==
    IF p <= Len(s) /\ IsDigit(s[p]) /\ Boundary(s, p)
    THEN LET e2 == IF p + 1 <= Len(s) /\ IsDigit(s[p + 1]) THEN MarkTail(s, p + 2) ELSE 0
         IN  IF e2 # 0 THEN e2 ELSE MarkTail(s, p + 1)
    ELSE 0

\* while ((match = markPattern.exec(line)) !== null) ... : every match[1]
RECURSIVE ExecMarkPattern(_, _)
ExecMarkPattern(s, p) ==
    IF p > Len(s) THEN << >>
    ELSE LET e == MarkMatchEnd(s, p)
         IN  IF e # 0 THEN <<SubSeq(s, p, e - 1)>> \o ExecMarkPattern(s, e)
             ELSE ExecMarkPattern(s, p + 1)

\* String.prototype.replace(pattern: string, "|"): the first occurrence only
ReplaceFirst(s, k, r) ==
    LET i == IndexOf(s, k)
    IN  IF i = 0 THEN s
        ELSE SubSeq(s, 1, i - 1) \o r \o SubSeq(s, i + Len(k), Len(s))

\* line.split(/\s{2,}|\|/)
RECURSIVE SplitColumns(_, _, _)
SplitColumns(s, start, p) ==
    IF p > Len(s) THEN <<SubSeq(s, start, Len(s))>>
    ELSE IF p + 1 <= Len(s) /\ IsSpace(s[p]) /\ IsSpace(s[p + 1])
    THEN LET e == RunEnd(s, p, WhiteSpace)
         IN  <<SubSeq(s, start, p - 1)>> \o SplitColumns(s, e + 1, e + 1)
    ELSE IF s[p] = PIPE
    THEN <<SubSeq(s, start, p - 1)>> \o SplitColumns(s, p + 1, p + 1)
    ELSE SplitColumns(s, start, p + 1)

(***************************************************************************)
(* TableDetectionService.parseNumericValue                                 *)
(***************************************************************************)
\* text.replace(/,/g, ".").trim()
CleanNumber(text) == Trim([i \in 1..Len(text) |-> IF text[i] = COMMA THEN DOT ELSE text[i]])

\* /^\d+(\.\d+)?$/.test(c)
SimpleNumber(c) ==
    LET d == RunEnd(c, 1, Digits)
    IN  /\ d >= 1
        /\ \/ d = Len(c)
           \/ /\ d + 2 <= Len(c)
              /\ c[d + 1] = DOT
              /\ RunEnd(c, d + 2, Digits) = Len(c)

\* starts of a match of /(\d{1,2})[.,](\d{1,2})/ whose first group has n digits
MarkPairAt(c, i, n) ==
    /\ i + n + 1 <= Len(c)
    /\ \A j \in 0..(n - 1) : IsDigit(c[i + j])
    /\ IsSep(c[i + n])
    /\ IsDigit(c[i + n + 1])

parseNumericValue(text) ==
    LET c == CleanNumber(text)
        d == RunEnd(c, 1, Digits)
        starts == {i \in 1..Len(c) : MarkPairAt(c, i, 2) \/ MarkPairAt(c, i, 1)}
    IN  IF SimpleNumber(c)
        THEN ParseFloat(SubSeq(c, 1, d), SubSeq(c, d + 2, Len(c)))
        ELSE IF starts # {}
        THEN LET i == CHOOSE h \in starts : \A g \in starts : h <= g
                 n == IF MarkPairAt(c, i, 2) THEN 2 ELSE 1
                 f == i + n + 1
                 fe == IF f + 1 <= Len(c) /\ IsDigit(c[f + 1]) THEN f + 1 ELSE f
             IN  ParseFloat(SubSeq(c, i, i + n - 1), SubSeq(c, f, fe))
        ELSE NULL


(***************************************************************************)
(* Keywords (code points of the Arabic literals of the source)             *)
(***************************************************************************)
\* raqm "number"
KwRaqm == <<1585, 1602, 1605>>
\* ism "name"
KwIsm == <<1575, 1587, 1605>>
\* al-fard "the assignment"
KwAlFard == <<1575, 1604, 1601, 1585, 1590>>
\* r.t "record number"
KwRT == <<1585, 46, 1578>>
\* at-tilmidh "the pupil"
KwTilmidh == <<1575, 1604, 1578, 1604, 1605, 1610, 1584>>
\* an-nuqta "the grade"
KwAlNuqta == <<1575, 1604, 1606, 1602, 1591, 1577>>
\* al-madda "the subject"
KwAlMadda == <<1575, 1604, 1605, 1575, 1583, 1577>>
\* al-anshita "the activities"
KwAlAnshita == <<1575, 1604, 1571, 1606, 1588, 1591, 1577>>
\* fard
KwFard == <<1601, 1585, 1590>>
\* nuqta
KwNuqta == <<1606, 1602, 1591, 1577>>
\* nashat
KwNashat == <<1606, 1588, 1575, 1591>>
\* ism at-tilmidh "pupil's name"
KwIsmTilmidh == <<1575, 1587, 1605, 32, 1575, 1604, 1578, 1604, 1605, 1610, 1584>>
\* tawqi "signature"
KwTawqi == <<1578, 1608, 1602, 1610, 1593>>
\* al-ustadh "the teacher"
KwUstadh == <<1575, 1604, 1571, 1587, 1578, 1575, 1584>>
\* al-mudir "the director"
KwMudir == <<1575, 1604, 1605, 1583, 1610, 1585>>
\* mulahadha "note"
KwMulahadha == <<1605, 1604, 1575, 1581, 1592, 1577>>
\* tarikh "date"
KwTarikh == <<1578, 1575, 1585, 1610, 1582>>
\* al-mawsim "the season"
KwMawsim == <<1575, 1604, 1605, 1608, 1587, 1605>>
\* ad-dirasi "scholastic"
KwDirasi == <<1575, 1604, 1583, 1585, 1575, 1587, 1610>>
\* al-mamlaka "the kingdom"
KwMamlaka == <<1575, 1604, 1605, 1605, 1604, 1603, 1577>>
\* wizara "ministry"
KwWizara == <<1608, 1586, 1575, 1585, 1577>>
\* "talib " (placeholder prefix of the OCR service)
TalibPrefix == <<1591, 1575, 1604, 1576, 32>>
\* "Student " (placeholder prefix of the table service)
StudentPrefix == <<83, 116, 117, 100, 101, 110, 116, 32>>

IncludesAny(s, kws) == \E k \in kws : Includes(s, k)

\* ascending sequence of a finite set of integers
SortedSeq(S) ==
    LET nth(k) == CHOOSE i \in S : Cardinality({j \in S : j <= i}) = k
    IN  [k \in 1..Cardinality(S) |-> nth(k)]

SetMin(S) == CHOOSE i \in S : \A h \in S : i <= h
SetMax(S) == CHOOSE i \in S : \A h \in S : i >= h

(***************************************************************************)
(* TableDetectionService: Grid Builder                                     *)
(***************************************************************************)
MakeCell(text, r, c) ==
    LET v == parseNumericValue(text)
    IN  [text |-> text, position |-> [row |-> r, col |-> c],
         isNumeric |-> v # NULL, value |-> v]

\* the padding cell of refineGrid
EmptyCell(r, c) ==
    [text |-> << >>, position |-> [row |-> r, col |-> c],
     isNumeric |-> FALSE, value |-> NULL]

\* what an out-of-range array read gives
UndefinedCell == EmptyCell(-1, -1)
IsUndefined(cell) == cell.position.row = -1

RECURSIVE ReplaceMarks(_, _)
ReplaceMarks(textContent, marks) ==
    IF marks = << >> THEN textContent
    ELSE ReplaceMarks(ReplaceFirst(textContent, Head(marks), <<PIPE>>), Tail(marks))

\* the segments of a line (parseLine, first part)
LineSegments(line) ==
    LET first == SelectSeq(SplitColumns(line, 1, 1), TrimNonEmpty)
        marks == ExecMarkPattern(line, 1)
    IN  IF Len(first) <= 1 /\ Len(marks) > 0
        THEN SelectSeq(SplitChar(ReplaceMarks(line, marks), PIPE), TrimNonEmpty) \o marks
        ELSE first

CellHasText(cell) == Len(cell.text) > 0

parseLine(line, rowIndex) ==
    LET segments == LineSegments(line)
        all == [k \in 1..Len(segments) |-> MakeCell(Trim(segments[k]), rowIndex, k - 1)]
    IN  SelectSeq(all, CellHasText)

\* 0-based index of the first line of the table, -1 when there is none
DataStartLine(lines) ==
    LET hdr == {i \in 1..Len(lines) :
                    IncludesAny(lines[i], {KwRaqm, KwIsm, KwAlFard, KwRT})}
        num == {i \in 1..Len(lines) : LeadingIntSpace(lines[i])}
    IN  IF hdr # {} THEN SetMin(hdr) - 1
        ELSE IF num # {} THEN (IF SetMin(num) - 2 > 0 THEN SetMin(num) - 2 ELSE 0)
        ELSE -1

IsTableRow(line) ==
    \/ StartsWithDigit(line)
    \/ PipeThenDigit(line)
    \/ ArabicOnly(line)
    \/ HasMarkPattern(line)

\* indices (1-based, into processedLines) of the lines kept as table rows
TableRowIndices(processedLines) ==
    LET strict == {i \in 1..Len(processedLines) :
                      /\ Len(Trim(processedLines[i])) # 0
                      /\ IsTableRow(Trim(processedLines[i]))}
        loose == {i \in 1..Len(processedLines) :
                      LET line == Trim(processedLines[i])
                      IN  /\ ~(Len(line) > 100 \/ Len(line) < 2)
                          /\ (HasArabic(line) \/ HasDigit(line))}
    IN  IF Cardinality(strict) < 5 /\ Len(processedLines) > 10 THEN loose ELSE strict

MaxRowLength(grid) ==
    IF grid = << >> THEN 0 ELSE SetMax({Len(grid[r]) : r \in 1..Len(grid)})

\* faulty variant: the rows are cut or padded to the length of the first row
MutRefineGrid(grid) ==
    LET maxColumns == IF grid = << >> THEN 0 ELSE Len(grid[1])
    IN  [r \in 1..Len(grid) |->
            [c \in 1..maxColumns |->
                IF c <= Len(grid[r])
                THEN [grid[r][c] EXCEPT !.position = [row |-> r - 1, col |-> c - 1]]
                ELSE EmptyCell(r - 1, c - 1)]]

\* lines 236-274: pad every row to the longest row and renumber the positions
refineGrid(grid) ==
    LET maxColumns == MaxRowLength(grid)
    IN  [r \in 1..Len(grid) |->
            [c \in 1..maxColumns |->
                IF c <= Len(grid[r])
                THEN [grid[r][c] EXCEPT !.position = [row |-> r - 1, col |-> c - 1]]
                ELSE EmptyCell(r - 1, c - 1)]]

\* the lines that become grid rows, in order (<< >> when no start is found)
TableLines(lines) ==
    LET start == DataStartLine(lines)
        processedLines == SubSeq(lines, start + 1, Len(lines))
        idx == SortedSeq(TableRowIndices(processedLines))
    IN  IF start = -1 THEN << >>
        ELSE [k \in 1..Len(idx) |-> processedLines[idx[k]]]

createPreliminaryGrid(lines) ==
    LET rows == TableLines(lines)
    IN  refineGrid([k \in 1..Len(rows) |-> parseLine(rows[k], k - 1)])


(***************************************************************************)
(* TableDetectionService: Structure Identifier                             *)
(***************************************************************************)
HeaderIndicators ==
    {KwRaqm, KwIsm, KwTilmidh, KwAlFard, KwAlNuqta, KwAlMadda, KwAlAnshita}

\* grid[rowIndex].map(cell => cell.text).join(" ").toLowerCase()
RowText(row) == ToLowerCase(Join([c \in 1..Len(row) |-> row[c].text], <<SP>>))

\* 0-based index of the header row
findHeaderRow(grid) ==
    LET first5 == 1..(IF Len(grid) < 5 THEN Len(grid) ELSE 5)
        hits == {r \in first5 : IncludesAny(RowText(grid[r]), HeaderIndicators)}
    IN  IF hits # {} THEN SetMin(hits) - 1 ELSE 0

\* /[Gg]\d{7,}/.test(t) || /\d{7,}/.test(t)
IdPattern(t) == \E i \in 1..(Len(t) - 6) : \A j \in 0..6 : IsDigit(t[i + j])

\* columns (0-based) of the header row whose lower-cased text has a keyword
HeaderColumns(grid, headerRow, kws) ==
    {c \in 0..(Len(grid[headerRow + 1]) - 1) :
        IncludesAny(ToLowerCase(grid[headerRow + 1][c + 1].text), kws)}

\* the content rows (1-based) that have a cell in column c (0-based)
ColumnRows(grid, headerRow, c) ==
    {r \in (headerRow + 2)..Len(grid) : c + 1 <= Len(grid[r])}

CellIsNumeric(cell) == cell.isNumeric
CellInMarkRange(cell) ==
    cell.isNumeric /\ cell.value # NULL /\ cell.value >= 0 /\ cell.value <= 20 * Scale
CellHasArabic(cell) == HasArabic(cell.text)
CellHasIdPattern(cell) == IdPattern(cell.text)

\* candidates.sort((a, b) => b.count - a.count)[0].index: the first column with
\* the highest count (the sort is stable)
BestColumn(cands, count) ==
    CHOOSE c \in cands :
        \A d \in cands : count[c] > count[d] \/ (count[c] = count[d] /\ c <= d)

identifyColumns(grid, headerRow) ==
    LET cols == 0..(Len(grid[1]) - 1)
        hdrId == HeaderColumns(grid, headerRow, {KwRaqm, KwRT})
        hdrName == HeaderColumns(grid, headerRow, {KwIsm, KwTilmidh})
        hdrMarks == HeaderColumns(grid, headerRow,
                        {KwFard, KwAlFard, KwNuqta, KwAlAnshita, KwNashat})
        id0 == IF hdrId = {} THEN -1 ELSE SetMax(hdrId)
        name0 == IF hdrName = {} THEN -1 ELSE SetMax(hdrName)
        infer == id0 = -1 \/ name0 = -1 \/ hdrMarks = {}
        totalRows == Len(grid) - (headerRow + 1)
        numericCounts(c) ==
            Cardinality({r \in ColumnRows(grid, headerRow, c) : CellIsNumeric(grid[r][c + 1])})
        markRangeCounts(c) ==
            Cardinality({r \in ColumnRows(grid, headerRow, c) : CellInMarkRange(grid[r][c + 1])})
        arabicTextCounts(c) ==
            Cardinality({r \in ColumnRows(grid, headerRow, c) : CellHasArabic(grid[r][c + 1])})
        idPatternCounts(c) ==
            Cardinality({r \in ColumnRows(grid, headerRow, c) : CellHasIdPattern(grid[r][c + 1])})
        idCands == {c \in cols : idPatternCounts(c) > 0}
        id1 == IF infer /\ id0 = -1
               THEN (IF idCands # {} THEN BestColumn(idCands, [c \in cols |-> idPatternCounts(c)]) ELSE 0)
               ELSE id0
        nameCands == {c \in cols : arabicTextCounts(c) > 0 /\ c # id1}
        name1 == IF infer /\ name0 = -1 /\ nameCands # {}
                 THEN BestColumn(nameCands, [c \in cols |-> arabicTextCounts(c)])
                 ELSE name0
        inRange == {c \in cols : c # id1 /\ c # name1
                                  /\ 10 * markRangeCounts(c) > 3 * totalRows}
        numeric == {c \in cols : c # id1 /\ c # name1 /\ numericCounts(c) > 0}
        marks1 == IF infer /\ hdrMarks = {}
                  THEN (IF inRange # {} THEN inRange ELSE numeric)
                  ELSE hdrMarks
        id2 == IF id1 = -1 THEN 0 ELSE id1
        name2 == IF name1 = -1 THEN 1 ELSE name1
        marks2 == IF marks1 = {} THEN {c \in cols : c # id2 /\ c # name2} ELSE marks1
    IN  [studentIdColumn |-> id2, studentNameColumn |-> name2,
         markColumns |-> SortedSeq(marks2)]

\* the structure of a non-empty grid
identifyTableStructure(grid) ==
    LET headerRow == findHeaderRow(grid)
        cols == identifyColumns(grid, headerRow)
    IN  [headerRow |-> headerRow,
         studentIdColumn |-> cols.studentIdColumn,
         studentNameColumn |-> cols.studentNameColumn,
         markColumns |-> cols.markColumns,
         rowCount |-> Len(grid),
         colCount |-> Len(grid[1]),
         cells |-> grid]

\* detectTable returns null for an empty grid
NoTable ==
    [headerRow |-> -1, studentIdColumn |-> -1, studentNameColumn |-> -1,
     markColumns |-> << >>, rowCount |-> 0, colCount |-> 0, cells |-> << >>]

detectTable(grid) == IF Len(grid) = 0 THEN NoTable ELSE identifyTableStructure(grid)

(***************************************************************************)
(* TableDetectionService: Record Extractor                                 *)
(***************************************************************************)
\* cells[rowIndex][col] for a 0-based col
CellAt(row, col) ==
    IF col >= 0 /\ col + 1 <= Len(row) THEN row[col + 1] ELSE UndefinedCell

\* faulty variant: a plain property read, which raises on undefined
MutReadThrows(cell) == IsUndefined(cell)
\* whether reading .text or .isNumeric of the cell raises a TypeError: every
\* such read of idCell, nameCell and markCell is an optional chain (cell?.x)
ReadThrows(cell) == FALSE

\* s.replace(/\D/g, "")
DigitsOnly(t) == SelectSeq(t, IsDigit)

NoMarks == [fard1 |-> NULL, fard2 |-> NULL, fard3 |-> NULL, activities |-> NULL]

\* the first four entries of a list of values as fard1, fard2, fard3, activities
MarksOf(vals) ==
    [fard1 |-> IF Len(vals) >= 1 THEN vals[1] ELSE NULL,
     fard2 |-> IF Len(vals) >= 2 THEN vals[2] ELSE NULL,
     fard3 |-> IF Len(vals) >= 3 THEN vals[3] ELSE NULL,
     activities |-> IF Len(vals) >= 4 THEN vals[4] ELSE NULL]

\* faulty variant: the cell value is stored as it is
MutMarkAt(row, markColumns, markIndex) ==
    IF markIndex + 1 <= Len(markColumns)
    THEN LET markCell == CellAt(row, markColumns[markIndex + 1])
         IN  IF markColumns[markIndex + 1] < Len(row)
                /\ markCell.isNumeric /\ markCell.value # NULL
             THEN markCell.value
             ELSE NULL
    ELSE NULL
\* the value markColumns[markIndex] gives a row (markIndex 0-based), NULL if none
MarkAt(row, markColumns, markIndex) ==
    IF markIndex + 1 <= Len(markColumns)
    THEN LET markCell == CellAt(row, markColumns[markIndex + 1])
         IN  IF markColumns[markIndex + 1] < Len(row)
                /\ markCell.isNumeric /\ markCell.value # NULL
             THEN ToFixed2(markCell.value)
             ELSE NULL
    ELSE NULL

RowStudentId(idCell, rowIndex, headerRow) ==
    IF idCell.isNumeric /\ idCell.value # NULL THEN idCell.value
    ELSE IF Len(idCell.text) > 0 /\ Len(DigitsOnly(idCell.text)) > 0
    THEN ParseInt(DigitsOnly(idCell.text))
    ELSE (rowIndex - headerRow) * Scale

\* the record of one row (rowIndex 0-based)
RowStudent(ts, rowIndex) ==
    LET row == ts.cells[rowIndex + 1]
        idCell == CellAt(row, ts.studentIdColumn)
        nameCell == CellAt(row, ts.studentNameColumn)
        studentId == RowStudentId(idCell, rowIndex, ts.headerRow)
    IN  [number |-> studentId,
         name |-> IF Len(nameCell.text) > 0 THEN nameCell.text
                  ELSE StudentPrefix \o NumberToString(studentId),
         marks |-> [fard1 |-> MarkAt(row, ts.markColumns, 0),
                    fard2 |-> MarkAt(row, ts.markColumns, 1),
                    fard3 |-> MarkAt(row, ts.markColumns, 2),
                    activities |-> MarkAt(row, ts.markColumns, 3)]]

\* rows (0-based) after the header that have an id or a name
StudentRows(ts) ==
    {r \in (ts.headerRow + 1)..(Len(ts.cells) - 1) :
        ~(/\ Len(CellAt(ts.cells[r + 1], ts.studentIdColumn).text) = 0
          /\ Len(CellAt(ts.cells[r + 1], ts.studentNameColumn).text) = 0)}

\* whether the extraction raises: a read of a property of an undefined cell
extractStudentDataThrows(ts) ==
    \E r \in (ts.headerRow + 1)..(Len(ts.cells) - 1) :
        \/ ReadThrows(CellAt(ts.cells[r + 1], ts.studentIdColumn))
        \/ ReadThrows(CellAt(ts.cells[r + 1], ts.studentNameColumn))

\* students: the array the records are pushed to (const students = [])
extractStudentData(ts, students) ==
    LET rows == SortedSeq(StudentRows(ts))
    IN  students \o [k \in 1..Len(rows) |-> RowStudent(ts, rows[k])]


(***************************************************************************)
(* OCRService: Pattern-Based Extractor                                     *)
(***************************************************************************)
\* the header test shared by findStudentSection and extractStudentInfoFromSection
IsHeaderLine(line) ==
    \/ Includes(line, KwIsmTilmidh)
    \/ Includes(line, KwRT)
    \/ (Includes(line, KwRaqm) /\ Includes(line, KwIsm))

IsFooterLine(line) == IncludesAny(line, {KwTawqi, KwUstadh, KwMudir, KwMulahadha})

\* 0-based index of the first line of the student section, -1 when none
SectionStart(lines) ==
    LET hdr == {i \in 1..Len(lines) : IsHeaderLine(ToLowerCase(lines[i]))}
        num == {i \in 1..Len(lines) : LeadingIntSpace(lines[i])}
    IN  IF hdr # {} THEN SetMin(hdr) - 1
        ELSE IF num # {} THEN SetMin(num) - 1
        ELSE -1

\* 0-based index one past the last line of the section
SectionEnd(lines, start) ==
    LET ends == {i \in (start + 1)..(Len(lines) - 1) :
                    \/ IsFooterLine(lines[i + 1])
                    \/ /\ i > start + 5
                       /\ Len(Trim(lines[i + 1])) = 0
                       /\ i + 2 <= Len(lines)
                       /\ Len(Trim(lines[i + 2])) = 0}
    IN  IF ends # {} THEN SetMin(ends) ELSE Len(lines)

\* the section, << >> for null (a section found is never empty)
findStudentSection(lines) ==
    LET start == SectionStart(lines)
    IN  IF start = -1 THEN << >>
        ELSE SubSeq(lines, start + 1, SectionEnd(lines, start))

\* end of the leading integer of /^\s*(\d+)/, with the end of the leading blanks
LeadSpaces(line) == RunEnd(line, 1, WhiteSpace)
LeadDigits(line) == RunEnd(line, LeadSpaces(line) + 1, Digits)

\* where group 2 of /^\s*(\d+)\s*[\|\s]*([U+0600-U+06FF\s]+)/ starts: the last
\* position, at most one past the run of blanks and pipes after the integer,
\* that holds an Arabic character or a blank (greedy with backtracking)
NamePatternStarts(line) ==
    LET d == LeadDigits(line)
        w == RunEnd(line, d + 1, SpaceOrPipe)
    IN  {q \in (d + 1)..(w + 1) : q <= Len(line) /\ IsArabicOrSpace(line[q])}

MatchesNamePattern(line) ==
    LeadDigits(line) > LeadSpaces(line) /\ NamePatternStarts(line) # {}

\* match[2] of the first pattern
NamePatternGroup(line) ==
    LET q == SetMax(NamePatternStarts(line))
    IN  SubSeq(line, q, RunEnd(line, q, ArabicOrSpace))

\* /^\s*(\d+)\s*$/
MatchesBareNumber(line) ==
    /\ LeadDigits(line) > LeadSpaces(line)
    /\ RunEnd(line, LeadDigits(line) + 1, WhiteSpace) = Len(line)

\* match[1] of either pattern
LeadingId(line) == SubSeq(line, LeadSpaces(line) + 1, LeadDigits(line))

\* line.match(/\d+/g)[0]
FirstNumber(line) ==
    LET f == SetMin({i \in 1..Len(line) : IsDigit(line[i])})
    IN  SubSeq(line, f, RunEnd(line, f, Digits))

NotDigit(c) == ~IsDigit(c)
\* line.replace(/\d+/g, "")
StripDigits(line) == SelectSeq(line, NotDigit)

\* studentInfo[id] = name on a record kept as its entries in insertion order
PutInfo(info, id, name) ==
    IF \E k \in 1..Len(info) : info[k].id = id
    THEN [k \in 1..Len(info) |-> IF info[k].id = id THEN [id |-> id, name |-> name]
                                 ELSE info[k]]
    ELSE Append(info, [id |-> id, name |-> name])

\* `talib ${id}`
TalibName(idText) == TalibPrefix \o idText

\* the loop of extractStudentInfoFromSection from line i (1-based)
RECURSIVE StudentInfoFrom(_, _, _)
StudentInfoFrom(section, i, info) ==
    IF i > Len(section) THEN info
    ELSE LET line == Trim(section[i])
         IN  IF IsHeaderLine(line) THEN StudentInfoFrom(section, i + 1, info)
             ELSE IF MatchesNamePattern(line)
             THEN StudentInfoFrom(section, i + 1,
                      PutInfo(info, LeadingId(line), Trim(NamePatternGroup(line))))
             ELSE IF MatchesBareNumber(line)
             THEN IF i + 1 <= Len(section) /\ ArabicOnly(section[i + 1])
                  THEN StudentInfoFrom(section, i + 2,
                           PutInfo(info, LeadingId(line), Trim(section[i + 1])))
                  ELSE StudentInfoFrom(section, i + 1,
                           PutInfo(info, LeadingId(line), TalibName(LeadingId(line))))
             ELSE IF HasArabic(line) /\ HasDigit(line) /\ Len(Trim(StripDigits(line))) > 2
             THEN StudentInfoFrom(section, i + 1,
                      PutInfo(info, FirstNumber(line), Trim(StripDigits(line))))
             ELSE StudentInfoFrom(section, i + 1, info)

extractStudentInfoFromSection(section) == StudentInfoFrom(section, 1, << >>)

\* faulty variant: no line is skipped
MutIsMetadataLine(line) == FALSE
\* lines 283-289
IsMetadataLine(line) ==
    IncludesAny(line, {KwTarikh, KwMawsim, KwDirasi, KwMamlaka, KwWizara})

\* parseFloat(markStr.replace(",", ".")) of a token \d{1,2}([.,]\d{1,2})?
TokenValue(tok) ==
    LET d == RunEnd(tok, 1, Digits)
    IN  ParseFloat(SubSeq(tok, 1, d), SubSeq(tok, d + 2, Len(tok)))

InMarkRange(v) == v >= 0 /\ v <= 20 * Scale

\* faulty variant: the values are kept whatever their range
MutLineMarkValues(toks) ==
    [k \in 1..Len(toks) |-> TokenValue(toks[k])]

\* the values of the tokens of one line that lie in [0, 20]
LineMarkValues(toks) ==
    LET vals == [k \in 1..Len(toks) |-> TokenValue(toks[k])]
    IN  SelectSeq(vals, InMarkRange)

RECURSIVE extractMarkValues(_)
extractMarkValues(lines) ==
    IF lines = << >> THEN << >>
    ELSE (IF IsMetadataLine(Head(lines)) THEN << >>
          ELSE LineMarkValues(ExecMarkPattern(Head(lines), 1)))
         \o extractMarkValues(Tail(lines))

\* "4294967295", 2^32 - 1
MaxArrayIndexDigits == <<52, 50, 57, 52, 57, 54, 55, 50, 57, 53>>

\* whether a property key is an array index (listed first, in numeric order, by
\* Object.entries): a canonical numeral below 2^32 - 1
IsArrayIndex(id) ==
    /\ (Len(id) = 1 \/ id[1] # 48)
    /\ \/ Len(id) < 10
       \/ /\ Len(id) = 10
          /\ \E i \in 1..10 :
                /\ id[i] < MaxArrayIndexDigits[i]
                /\ \A j \in 1..(i - 1) : id[j] = MaxArrayIndexDigits[j]

\* Object.entries(studentInfo).map(parseInt).sort((a, b) => a.id - b.id):
\* whether entry j comes before entry k
EntryBefore(info, j, k) ==
    LET vj == DigitsValue(info[j].id)
        vk == DigitsValue(info[k].id)
    IN  \/ vj < vk
        \/ /\ vj = vk
           /\ \/ IsArrayIndex(info[j].id) /\ ~IsArrayIndex(info[k].id)
              \/ IsArrayIndex(info[j].id) = IsArrayIndex(info[k].id) /\ j < k

SortedEntries(info) ==
    LET pos(k) == 1 + Cardinality({j \in 1..Len(info) : EntryBefore(info, j, k)})
    IN  [p \in 1..Len(info) |-> info[CHOOSE k \in 1..Len(info) : pos(k) = p]]

\* faulty variant: the quotient is rounded up
MutExpectedMarksPerStudent(nMarks, nStudents) ==
    IF (nMarks + nStudents - 1) \div nStudents < 4
    THEN (nMarks + nStudents - 1) \div nStudents ELSE 4
\* Math.min(4, Math.floor(markValues.length / studentEntries.length))
ExpectedMarksPerStudent(nMarks, nStudents) ==
    IF nMarks \div nStudents < 4 THEN nMarks \div nStudents ELSE 4

\* students: the array the records are pushed to (const students = [])
assignMarksToStudents(info, markValues, students) ==
    LET entries == SortedEntries(info)
        m == ExpectedMarksPerStudent(Len(markValues), Len(entries))
        taken(k) == LET from == (k - 1) * m + 1
                        to == IF k * m <= Len(markValues) THEN k * m ELSE Len(markValues)
                    IN  SubSeq(markValues, from, to)
    IN  students \o
        [k \in 1..Len(entries) |->
            [number |-> ParseInt(entries[k].id),
             name |-> entries[k].name,
             marks |-> MarksOf(taken(k))]]

extractStudentsByPatterns(lines, students) ==
    LET section == findStudentSection(lines)
        info == extractStudentInfoFromSection(section)
    IN  IF section = << >> THEN << >>
        ELSE IF Len(info) = 0 THEN << >>
        ELSE assignMarksToStudents(info, extractMarkValues(lines), students)

(***************************************************************************)
(* OCRService: Basic Extractor                                             *)
(***************************************************************************)
\* line.replace(/\d+([.,]\d+)?/g, "")
RECURSIVE RemoveNumbers(_, _)
RemoveNumbers(s, p) ==
    IF p > Len(s) THEN << >>
    ELSE IF IsDigit(s[p])
    THEN LET d == RunEnd(s, p, Digits)
         IN  IF d + 2 <= Len(s) /\ IsSep(s[d + 1]) /\ IsDigit(s[d + 2])
             THEN RemoveNumbers(s, RunEnd(s, d + 2, Digits) + 1)
             ELSE RemoveNumbers(s, d + 1)
    ELSE <<s[p]>> \o RemoveNumbers(s, p + 1)

\* /\b(\d{1,2}[.,]\d{1,2})\b/ anchored at p, n integer digits: index after, or 0
PairTail(s, q) ==
    IF q + 1 <= Len(s) /\ IsSep(s[q]) /\ IsDigit(s[q + 1])
    THEN IF q + 2 <= Len(s) /\ IsDigit(s[q + 2]) /\ Boundary(s, q + 3) THEN q + 3
         ELSE IF Boundary(s, q + 2) THEN q + 2
         ELSE 0
    ELSE 0

PairMatchEnd(s, p) ==
    IF p <= Len(s) /\ IsDigit(s[p]) /\ Boundary(s, p)
    THEN LET e2 == IF p + 1 <= Len(s) /\ IsDigit(s[p + 1]) THEN PairTail(s, p + 2) ELSE 0
         IN  IF e2 # 0 THEN e2 ELSE PairTail(s, p + 1)
    ELSE 0

\* line.match(/\b(\d{1,2}[.,]\d{1,2})\b/g)
RECURSIVE MatchPairs(_, _)
MatchPairs(s, p) ==
    IF p > Len(s) THEN << >>
    ELSE LET e == PairMatchEnd(s, p)
         IN  IF e # 0 THEN <<SubSeq(s, p, e - 1)>> \o MatchPairs(s, e)
             ELSE MatchPairs(s, p + 1)

\* faulty variant: the next line is borrowed whatever it starts with
MutBasicName(studentLines, i) ==
    LET own == Trim(RemoveNumbers(studentLines[i], 1))
        borrowed == IF Len(own) < 3 /\ i + 1 <= Len(studentLines)
                    THEN Trim(studentLines[i + 1])
                    ELSE own
    IN  IF Len(borrowed) < 3
        THEN TalibPrefix \o NumberToString(ParseInt(LeadingId(studentLines[i])))
        ELSE borrowed

\* studentName of extractBasicStudentData for studentLines[i]
BasicName(studentLines, i) ==
    LET own == Trim(RemoveNumbers(studentLines[i], 1))
        borrowed == IF Len(own) < 3 /\ i + 1 <= Len(studentLines)
                       /\ ~LeadingIntSpace(studentLines[i + 1])
                    THEN Trim(studentLines[i + 1])
                    ELSE own
    IN  IF Len(borrowed) < 3
        THEN TalibPrefix \o NumberToString(ParseInt(LeadingId(studentLines[i])))
        ELSE borrowed

\* students: the array the records are pushed to (const students = [])
extractBasicStudentData(lines, students) ==
    LET studentLines == SelectSeq(lines, LeadingIntSpace)
    IN  students \o
        [i \in 1..Len(studentLines) |->
            [number |-> ParseInt(LeadingId(studentLines[i])),
             name |-> BasicName(studentLines, i),
             marks |-> MarksOf(LineMarkValues(MatchPairs(studentLines[i], 1)))]]


(***************************************************************************)
(* ExcelService (DataTable.tsx): matching a student to a roster row        *)
(*                                                                         *)
(* The roster is range.values: rows of cells, row 0 the header.  A cell is *)
(* the text of the cell; a blank cell is the empty string.                 *)
(***************************************************************************)
\* String.prototype.endsWith
EndsWith(s, k) == Len(k) <= Len(s) /\ SubSeq(s, Len(s) - Len(k) + 1, Len(s)) = k

\* x.toString().replace(/[^0-9]/g, "")
CleanId(t) == SelectSeq(t, IsDigit)

\* values[i][col] (col 0-based); an index outside the row gives undefined,
\* which is falsy like the empty string
RosterCell(row, col) == IF col >= 0 /\ col < Len(row) THEN row[col + 1] ELSE << >>

\* faulty variant: only the roster id may be the longer one
MutIdMatches(cellStrValue, cleanStudentNum) == EndsWith(cellStrValue, cleanStudentNum)
\* line 878
IdMatches(cellStrValue, cleanStudentNum) ==
    EndsWith(cellStrValue, cleanStudentNum) \/ EndsWith(cleanStudentNum, cellStrValue)

\* the body of the loop of findStudentRowByNumber for row i (0-based)
NumberRowMatches(values, i, numColumn, cleanStudentNum) ==
    /\ numColumn < Len(values[i + 1])
    /\ LET cellValue == RosterCell(values[i + 1], numColumn)
       IN  /\ Len(cellValue) > 0
           /\ IdMatches(CleanId(cellValue), cleanStudentNum)

findStudentRowByNumber(studentNum, values, numColumn) ==
    LET cleanStudentNum == CleanId(studentNum)
        hits == {i \in 1..(Len(values) - 1) :
                    NumberRowMatches(values, i, numColumn, cleanStudentNum)}
    IN  IF hits = {} THEN -1 ELSE SetMin(hits)

\* text.normalize("NFKD") on the characters of the model's alphabet: the
\* alefs with madda, hamza above and hamza below, waw and ya with hamza, and
\* e with acute decompose into a base letter and a combining mark
Nfkd(c) ==
    CASE c = 1570 -> <<1575, 1619>>
      [] c = 1571 -> <<1575, 1620>>
      [] c = 1572 -> <<1608, 1620>>
      [] c = 1573 -> <<1575, 1621>>
      [] c = 1574 -> <<1610, 1620>>
      [] c = 233 -> <<101, 769>>
      [] OTHER -> <<c>>

RECURSIVE NormalizeNfkd(_)
NormalizeNfkd(text) ==
    IF text = << >> THEN << >> ELSE Nfkd(Head(text)) \o NormalizeNfkd(Tail(text))

\* not in [U+0300-U+036F]
NotCombining(c) == c \notin 768..879

\* the three replacements of single letters (lines 915-917)
FoldLetter(c) ==
    IF c \in {1571, 1573, 1570} THEN 1575
    ELSE IF c = 1577 THEN 1607
    ELSE IF c = 1609 THEN 1610
    ELSE c

normalizeArabicText(text) ==
    LET stripped == SelectSeq(NormalizeNfkd(text), NotCombining)
        folded == [i \in 1..Len(stripped) |-> FoldLetter(stripped[i])]
    IN  ToLowerCase(Trim(folded))

Min(a, b) == IF a <= b THEN a ELSE b

\* faulty variant: the diagonal (substitution) is left out of the minimum
MutNewValue(diagonal, lastValue, above, same) ==
    IF same THEN diagonal ELSE Min(lastValue, above) + 1
\* lines 950-953: newValue from costs[j - 1], lastValue and costs[j]
NewValue(diagonal, lastValue, above, same) ==
    IF same THEN diagonal ELSE Min(Min(diagonal, lastValue), above) + 1

\* the inner loop of editDistance for one i >= 1, up to column j: the values
\* lastValue takes after columns 0..j; costs[k + 1] is the source's costs[k]
RECURSIVE LastValues(_, _, _, _, _)
LastValues(s1, s2, i, costs, j) ==
    IF j = 0 THEN <<i>>
    ELSE LET before == LastValues(s1, s2, i, costs, j - 1)
         IN  Append(before,
                    NewValue(costs[j], before[j], costs[j + 1], s1[i] = s2[j]))

\* costs after line 958: costs[j - 1] = lastValue for each j, costs[s2.length]
\* = the last lastValue
EditRow(s1, s2, i, costs) == LastValues(s1, s2, i, costs, Len(s2))

\* the outer loop of editDistance: the contents of costs after the iterations
\* 0..i, one array per iteration (iteration 0 fills costs[j] = j)
RECURSIVE EditRows(_, _, _)
EditRows(s1, s2, i) ==
    IF i = 0 THEN <<[j \in 1..(Len(s2) + 1) |-> j - 1]>>
    ELSE LET before == EditRows(s1, s2, i - 1)
         IN  Append(before, EditRow(s1, s2, i, before[i]))

editDistance(s1, s2) == EditRows(s1, s2, Len(s1))[Len(s1) + 1][Len(s2) + 1]

\* the similarity as a fraction <<numerator, denominator>>
calculateSimilarity(s1, s2) ==
    LET longer == IF Len(s1) > Len(s2) THEN s1 ELSE s2
        shorter == IF Len(s1) > Len(s2) THEN s2 ELSE s1
    IN  IF s1 = s2 THEN <<1, 1>>
        ELSE IF Len(longer) = 0 THEN <<1, 1>>
        ELSE IF Includes(longer, shorter) THEN <<9, 10>>
        ELSE <<Len(longer) - editDistance(longer, shorter), Len(longer)>>

\* faulty variant: a similarity of 0.7 is accepted
MutAboveThreshold(similarity) == 10 * similarity[1] >= 7 * similarity[2]
\* similarity > 0.7
AboveThreshold(similarity) == 10 * similarity[1] > 7 * similarity[2]

compareNames(name1, name2) == AboveThreshold(calculateSimilarity(name1, name2))

\* the body of the loop of findStudentRowByName for row i (0-based)
NameRowMatches(values, i, nameColumn, nameToFind) ==
    /\ nameColumn < Len(values[i + 1])
    /\ compareNames(nameToFind,
                    normalizeArabicText(RosterCell(values[i + 1], nameColumn)))

findStudentRowByName(studentName, values, nameColumn) ==
    LET nameToFind == normalizeArabicText(studentName)
        hits == {i \in 1..(Len(values) - 1) :
                    NameRowMatches(values, i, nameColumn, nameToFind)}
    IN  IF hits = {} THEN -1 ELSE SetMin(hits)

(***************************************************************************)
(* Input texts                                                             *)
(***************************************************************************)
\* Scenario A header: raqm ism at-tilmidh al-fard1 al-fard2
LineHeaderA == <<1585, 1602, 1605, 32, 1575, 1587, 1605, 32, 1575, 1604, 1578, 1604, 1605, 1610, 1584, 32, 1575, 1604, 1601, 1585, 1590, 49, 32, 1575, 1604, 1601, 1585, 1590, 50>>
\* "1 Ahmad 15.50 12.00"
LineRowA1 == <<49, 32, 1571, 1581, 1605, 1583, 32, 49, 53, 46, 53, 48, 32, 49, 50, 46, 48, 48>>
\* "2 Said 18.00 09.50"
LineRowA2 == <<50, 32, 1587, 1593, 1610, 1583, 32, 49, 56, 46, 48, 48, 32, 48, 57, 46, 53, 48>>
\* header with two blanks between columns: raqm  ism  al-fard
LineHeaderCols == <<1585, 1602, 1605, 32, 32, 1575, 1587, 1605, 32, 32, 1575, 1604, 1601, 1585, 1590>>
\* "1  Ahmad  45" (two blanks between columns)
LineRowOver == <<49, 32, 32, 1571, 1581, 1605, 1583, 32, 32, 52, 53>>
\* "2.5  Said"
LineRowFrac == <<50, 46, 53, 32, 32, 1587, 1593, 1610, 1583>>
\* " 12.50 " in Arabic-Indic digits U+0661 U+0662 . U+0665 U+0660
LineIndic == <<32, 1633, 1634, 46, 1637, 1632, 32>>
\* "2 Said" with the Extended Arabic-Indic (Persian) digit U+06F2
LinePersian == <<1778, 32, 1587, 1593, 1610, 1583>>
\* "3 Yusuf"
LineRowB == <<51, 32, 1610, 1608, 1587, 1601>>
\* four decimal pairs
LineMarks4 == <<49, 52, 46, 53, 48, 32, 49, 51, 46, 48, 48, 32, 49, 50, 46, 53, 48, 32, 49, 49, 46, 48, 48>>
\* raqm ism
LineHeaderOne == <<1585, 1602, 1605, 32, 1575, 1587, 1605>>
\* Ahmad
LineNameOnly == <<1571, 1581, 1605, 1583>>
\* a bare number
LineBare == <<52>>
\* tarikh 12 (a date line)
LineMeta == <<1578, 1575, 1585, 1610, 1582, 32, 49, 50>>
\* tawqi (signature)
LineFooter == <<1578, 1608, 1602, 1610, 1593>>
\* blanks only
LineBlank == <<32, 32>>
\* no digit, no Arabic
LineLatin == <<97, 98>>
\* "G1234567  Said  10"
LineIdRow == <<71, 49, 50, 51, 52, 53, 54, 55, 32, 32, 1587, 1593, 1610, 1583, 32, 32, 49, 48>>
\* al-fard alone
LineHeaderFard == <<1575, 1604, 1601, 1585, 1590>>
\* "1 raqm ism"
LineNumHeader == <<49, 32, 1585, 1602, 1605, 32, 1575, 1587, 1605>>

LinePool ==
    {LineHeaderA, LineRowA1, LineRowA2, LineHeaderCols, LineRowOver, LineRowFrac,
     LineIndic, LinePersian, LineRowB, LineMarks4, LineHeaderOne, LineNameOnly,
     LineBare, LineMeta, LineFooter, LineBlank, LineLatin, LineIdRow, LineNumHeader,
     LineHeaderFard}

\* most lines of a text drawn from the pool
MaxLines == 2
\* lines of trailing filler that make a long document (more than 10 lines)
FillerLines == 9
\* most calls of the entry point in one behaviour of SpecRerun
MaxRuns == 3

LineSeqs == UNION {[1..n -> LinePool] : n \in 0..MaxLines}

MakeText(ls, filler) == Join(ls \o [i \in 1..filler |-> LineLatin], <<NL>>)

\* Scenario A of the specification
ScenarioAText == MakeText(<<LineHeaderA, LineRowA1, LineRowA2>>, 0)

\* "1  Ahmad 15.50  12": the name and a mark in one segment
LineMixedCell == <<49, 32, 32, 1571, 1581, 1605, 1583, 32, 49, 53, 46, 53, 48, 32, 32, 49, 50>>
\* "115 Ahmad 15": the mark is also the end of the id
LineIdHoldsMark == <<49, 49, 53, 32, 1571, 1581, 1605, 1583, 32, 49, 53>>
\* raqm alone, "1  Ahmad 5  Said", "2  Ali 7  12"
LineRaqm == <<1585, 1602, 1605>>
LineMixedA == <<49, 32, 32, 1571, 1581, 1605, 1583, 32, 53, 32, 32, 1587, 1593, 1610, 1583>>
LineMixedB == <<50, 32, 32, 1593, 1604, 1610, 32, 55, 32, 32, 49, 50>>

\* "12 ab": a number and no native-script name
LineNoName == <<49, 50, 32, 97, 98>>
\* al-fard 1
LineFardOne == <<1575, 1604, 1601, 1585, 1590, 32, 49>>
\* "3 Said": the id of "3 Yusuf" again
LineSameId == <<51, 32, 1587, 1593, 1610, 1583>>
\* "3 Yusuf 25.50 12.00": the first pair is above 20
LineOverPair == <<51, 32, 1610, 1608, 1587, 1601, 32, 50, 53, 46, 53, 48, 32, 49, 50, 46, 48, 48>>
\* "3 Yusuf 10.5 11.5 12.5 13.5 14.5": five pairs
LineFivePairs == <<51, 32, 1610, 1608, 1587, 1601, 32, 49, 48, 46, 53, 32, 49, 49, 46, 53, 32, 49, 50, 46, 53, 32, 49, 51, 46, 53, 32, 49, 52, 46, 53>>
\* "4 x" and "5 y 7": names of one character
LineShortX == <<52, 32, 120>>
LineShortY == <<53, 32, 121, 32, 55>>

\* texts of single cases
CaseTexts ==
    {ScenarioAText,
     MakeText(<<LineMixedCell>>, 0),
     MakeText(<<LineIdHoldsMark>>, 0),
     MakeText(<<LineRaqm, LineMixedA, LineMixedB>>, 0),
     MakeText(<<LineNoName, LineHeaderFard>>, 0),
     MakeText(<<LineRowB, LineFardOne>>, 0),
     MakeText(<<LineRowB, LineSameId, LineFardOne>>, 0),
     MakeText(<<LineOverPair, LineHeaderOne>>, 0),
     MakeText(<<LineFivePairs, LineShortX, LineHeaderOne>>, 0),
     MakeText(<<LineShortX, LineShortY, LineHeaderOne>>, 0)}

Texts == {MakeText(ls, f) : ls \in LineSeqs, f \in {0, FillerLines}} \cup CaseTexts

RerunTexts == {MakeText(ls, 0) : ls \in [1..2 -> {LineRowA1, LineRowA2, LineNumHeader}]}

(***************************************************************************)
(* OCRService.processOCRWithMultipleApproaches as a state machine          *)
(***************************************************************************)
VARIABLES
    extractedText,        \* the argument of the call
    pc,                   \* position in processOCRWithMultipleApproaches
    lines,                \* const lines
    grid,                 \* preliminaryGrid of detectTable
    tableStructure,       \* const tableStructure (NoTable for null)
    studentsFromTable,    \* the students array of extractStudentData
    studentsFromPatterns, \* the students array of assignMarksToStudents
    studentsFromBasic,    \* the students array of extractBasicStudentData
    invoked,              \* the strategies invoked by this call, in order
    returned,             \* the value the call returned
    raised,               \* whether the call ended by an exception
    runs,                 \* number of calls started
    firstText,            \* the argument of the first call
    firstReturned,        \* what the first call returned
    sawOther,             \* whether a later call had another argument
    mpc,                  \* position in the loop body of insertMarks
    studentNum,           \* student.number.toString()
    studentName,          \* student.name
    values,               \* range.values, the roster
    worksheetStructure,   \* this.worksheetStructure (the two columns used)
    rowIndex,             \* let rowIndex
    tpc,                  \* which text function was applied
    s1,                   \* first argument
    s2,                   \* second argument
    distance,             \* the result of editDistance(s1, s2)
    normalized            \* normalizeArabicText of s1 and of s2

pipelineVars ==
    <<extractedText, pc, lines, grid, tableStructure, studentsFromTable,
      studentsFromPatterns, studentsFromBasic, invoked, returned, raised,
      runs, firstText, firstReturned, sawOther>>
matchVars == <<mpc, studentNum, studentName, values, worksheetStructure, rowIndex>>
textVars == <<tpc, s1, s2, distance, normalized>>

\* the state of the DataTable component and of the App component
VARIABLES
    editableData,         \* DataTable: const [editableData, setEditableData]
    data,                 \* DataTable: the data prop, the last onDataUpdate argument
    searchTerm,           \* DataTable: const [searchTerm, setSearchTerm]
    editingCell,          \* DataTable: const [editingCell, setEditingCell]
    tabTimer,             \* DataTable: the cell of the pending 10 ms timer of Tab
    dataUpdates,          \* DataTable: number of calls of onDataUpdate
    selectedImage,        \* App: whether selectedImage is a file
    isProcessing,         \* App: const [isProcessing, setIsProcessing]
    extractedData,        \* App: const [extractedData, setExtractedData]
    currentStep,          \* App: const [currentStep, setCurrentStep]
    isSaving,             \* App: const [isSaving, setIsSaving]
    showMarkTypeDialog,   \* App: const [showMarkTypeDialog, setShowMarkTypeDialog]
    error,                \* App: whether error is a message
    ocrPending,           \* App: calls of ocrService.processImage not yet settled
    advanceTimers,        \* App: pending 1000 ms timers of processImage
    validatePending,      \* App: calls of validateExcelFile not yet settled
    insertPending,        \* App: calls of insertMarks not yet settled
    resetTimers,          \* App: pending 1500 ms timers of handleMarkTypeSelected
    processed             \* App: number of calls of processImage that reached the OCR

editVars == <<editableData, data, searchTerm, editingCell, tabTimer, dataUpdates>>
appVars ==
    <<selectedImage, isProcessing, extractedData, currentStep, isSaving,
      showMarkTypeDialog, error, ocrPending, advanceTimers, validatePending,
      insertPending, resetTimers, processed>>
uiVars == <<editVars, appVars>>
vars == <<pipelineVars, matchVars, textVars, uiVars>>

\* editingCell === null
NoCell == [studentIndex |-> -1, markType |-> "none"]

\* no table mounted
EditIdle ==
    /\ editableData = << >>
    /\ data = << >>
    /\ searchTerm = << >>
    /\ editingCell = NoCell
    /\ tabTimer = NoCell
    /\ dataUpdates = 0

\* the useState initial values of App, nothing pending
AppIdle ==
    /\ selectedImage = FALSE
    /\ isProcessing = FALSE
    /\ extractedData = "null"
    /\ currentStep = "ImageProcessing"
    /\ isSaving = FALSE
    /\ showMarkTypeDialog = FALSE
    /\ error = FALSE
    /\ ocrPending = 0
    /\ advanceTimers = 0
    /\ validatePending = 0
    /\ insertPending = 0
    /\ resetTimers = 0
    /\ processed = 0

\* no lookup in progress
MatchIdle ==
    /\ mpc = "idle"
    /\ studentNum = << >>
    /\ studentName = << >>
    /\ values = << >>
    /\ worksheetStructure = [studentNumberColumn |-> 0, studentNameColumn |-> -1]
    /\ rowIndex = -1

\* no text function applied
TextIdle ==
    /\ tpc = "idle"
    /\ s1 = << >>
    /\ s2 = << >>
    /\ distance = -1
    /\ normalized = << >>

\* faulty variant: the array of the previous call is used again
MutNewStudentsArray(previous) == previous
\* const students: Student[] = []  (a new array on every call)
NewStudentsArray(previous) == << >>

\* faulty variant: one record is not enough
MutStrategySucceeded(students) == Len(students) > 1
\* the tests of lines 104 and 114: students.length > 0
StrategySucceeded(students) == Len(students) > 0

\* faulty variant: the pattern approach is skipped
MutFallbackAfter(strategy) == "basic"
\* the approach that follows one that gave nothing (lines 110-111, 119-120)
FallbackAfter(strategy) == IF strategy = "table" THEN "patterns" ELSE "basic"

InitWith(texts) ==
    /\ extractedText \in texts
    /\ pc = "split"
    /\ lines = << >>
    /\ grid = << >>
    /\ tableStructure = NoTable
    /\ studentsFromTable = << >>
    /\ studentsFromPatterns = << >>
    /\ studentsFromBasic = << >>
    /\ invoked = << >>
    /\ returned = << >>
    /\ raised = FALSE
    /\ runs = 1
    /\ firstText = extractedText
    /\ firstReturned = << >>
    /\ sawOther = FALSE
    /\ MatchIdle
    /\ TextIdle
    /\ EditIdle
    /\ AppIdle

Init == InitWith(Texts)

history == <<runs, firstText, firstReturned, sawOther>>

\* lines 89-92
SplitText ==
    /\ pc = "split"
    /\ lines' = SplitLines(extractedText)
    /\ pc' = "grid"
    /\ UNCHANGED <<extractedText, grid, tableStructure, studentsFromTable,
                   studentsFromPatterns, studentsFromBasic, invoked, returned,
                   raised, history>>
    /\ UNCHANGED <<matchVars, textVars, uiVars>>

\* line 97, detectTable step 1
CreateGrid ==
    /\ pc = "grid"
    /\ grid' = createPreliminaryGrid(lines)
    /\ invoked' = Append(invoked, "table")
    /\ pc' = "structure"
    /\ UNCHANGED <<extractedText, lines, tableStructure, studentsFromTable,
                   studentsFromPatterns, studentsFromBasic, returned, raised, history>>
    /\ UNCHANGED <<matchVars, textVars, uiVars>>

\* line 97, detectTable step 2, and the test of line 99
IdentifyStructure ==
    /\ pc = "structure"
    /\ tableStructure' = detectTable(grid)
    /\ pc' = IF tableStructure' = NoTable THEN FallbackAfter("table") ELSE "extract"
    /\ UNCHANGED <<extractedText, lines, grid, studentsFromTable,
                   studentsFromPatterns, studentsFromBasic, invoked, returned,
                   raised, history>>
    /\ UNCHANGED <<matchVars, textVars, uiVars>>

\* lines 101-107
ExtractTable ==
    /\ pc = "extract"
    /\ IF extractStudentDataThrows(tableStructure)
       THEN /\ raised' = TRUE
            /\ pc' = "done"
            /\ UNCHANGED <<studentsFromTable, returned>>
       ELSE /\ studentsFromTable' =
                   extractStudentData(tableStructure, NewStudentsArray(studentsFromTable))
            /\ IF StrategySucceeded(studentsFromTable')
               THEN returned' = studentsFromTable' /\ pc' = "done"
               ELSE returned' = returned /\ pc' = FallbackAfter("table")
            /\ UNCHANGED raised
    /\ UNCHANGED <<extractedText, lines, grid, tableStructure, studentsFromPatterns,
                   studentsFromBasic, invoked, history>>
    /\ UNCHANGED <<matchVars, textVars, uiVars>>

\* lines 111-117
TryPatterns ==
    /\ pc = "patterns"
    /\ invoked' = Append(invoked, "patterns")
    /\ studentsFromPatterns' =
           extractStudentsByPatterns(lines, NewStudentsArray(studentsFromPatterns))
    /\ IF StrategySucceeded(studentsFromPatterns')
       THEN returned' = studentsFromPatterns' /\ pc' = "done"
       ELSE returned' = returned /\ pc' = FallbackAfter("patterns")
    /\ UNCHANGED <<extractedText, lines, grid, tableStructure, studentsFromTable,
                   studentsFromBasic, raised, history>>
    /\ UNCHANGED <<matchVars, textVars, uiVars>>

\* line 120
TryBasic ==
    /\ pc = "basic"
    /\ invoked' = Append(invoked, "basic")
    /\ studentsFromBasic' = extractBasicStudentData(lines, NewStudentsArray(studentsFromBasic))
    /\ returned' = studentsFromBasic'
    /\ pc' = "done"
    /\ UNCHANGED <<extractedText, lines, grid, tableStructure, studentsFromTable,
                   studentsFromPatterns, raised, history>>
    /\ UNCHANGED <<matchVars, textVars, uiVars>>

\* the entry point is called again, on any text
NewCall ==
    /\ pc = "done"
    /\ ~raised
    /\ runs < MaxRuns
    /\ \E t \in RerunTexts :
          /\ extractedText' = t
          /\ sawOther' = (sawOther \/ t # firstText)
    /\ runs' = runs + 1
    /\ firstReturned' = IF runs = 1 THEN returned ELSE firstReturned
    /\ pc' = "split"
    /\ lines' = << >>
    /\ grid' = << >>
    /\ tableStructure' = NoTable
    /\ invoked' = << >>
    /\ returned' = << >>
    /\ UNCHANGED <<studentsFromTable, studentsFromPatterns, studentsFromBasic,
                   raised, firstText>>
    /\ UNCHANGED <<matchVars, textVars, uiVars>>

Next ==
    \/ SplitText
    \/ CreateGrid
    \/ IdentifyStructure
    \/ ExtractTable
    \/ TryPatterns
    \/ TryBasic

Spec == Init /\ [][Next]_vars

InitRerun == InitWith(RerunTexts)
NextRerun == Next \/ NewCall
SpecRerun == InitRerun /\ [][NextRerun]_vars

(***************************************************************************)
(* ExcelService.insertMarks: the lookup of one student (lines 797-804)     *)
(***************************************************************************)
\* no call of the OCR service in progress
PipelineIdle ==
    /\ extractedText = << >>
    /\ pc = "idle"
    /\ lines = << >>
    /\ grid = << >>
    /\ tableStructure = NoTable
    /\ studentsFromTable = << >>
    /\ studentsFromPatterns = << >>
    /\ studentsFromBasic = << >>
    /\ invoked = << >>
    /\ returned = << >>
    /\ raised = FALSE
    /\ runs = 0
    /\ firstText = << >>
    /\ firstReturned = << >>
    /\ sawOther = FALSE

\* roster rows <<id cell, name cell>>
RowBlankId == <<<< >>, <<1575, 1581, 1605, 1583>>>>
\* "G0012", Ahmad written with alef-hamza
RowPrefixed == <<<<71, 48, 48, 49, 50>>, <<1571, 1581, 1605, 1583>>>>
\* "12", "abcdefgxyz"
RowTwelve == <<<<49, 50>>, <<97, 98, 99, 100, 101, 102, 103, 120, 121, 122>>>>
\* an id cell without a digit: "abc", "Sara B"
RowNoDigit == <<<<97, 98, 99>>, <<83, 97, 114, 97, 32, 66>>>>
\* "7" and a blank name
RowBlankName == <<<<55>>, << >>>>
\* "34", "sara"
RowSara == <<<<51, 52>>, <<115, 97, 114, 97>>>>
RowBlank == <<<< >>, << >>>>
\* "512", Muhammad
RowLong == <<<<53, 49, 50>>, <<1605, 1581, 1605, 1583>>>>
\* the header row: raqm, ism
RowHeader == <<KwRaqm, KwIsm>>

RosterRowPool ==
    {RowBlankId, RowPrefixed, RowTwelve, RowNoDigit, RowBlankName, RowSara,
     RowBlank, RowLong}

\* most data rows of a roster
MaxRosterRows == 2

Rosters ==
    {<<RowHeader>> \o rows :
        rows \in UNION {[1..n -> RosterRowPool] : n \in 0..MaxRosterRows}}

\* "12", "90012", "9", "ab"
TargetNums == {<<49, 50>>, <<57, 48, 48, 49, 50>>, <<57>>, <<97, 98>>}
\* Ahmad, "abcdefghij", " SARA ", the empty name
TargetNames == {<<1575, 1581, 1605, 1583>>, <<97, 98, 99, 100, 101, 102, 103, 104, 105, 106>>, <<32, 83, 65, 82, 65, 32>>, << >>}

Structures ==
    {[studentNumberColumn |-> 0, studentNameColumn |-> c] : c \in {1, -1}}

InitMatch ==
    /\ PipelineIdle
    /\ TextIdle
    /\ mpc = "number"
    /\ studentNum \in TargetNums
    /\ studentName \in TargetNames
    /\ values \in Rosters
    /\ worksheetStructure \in Structures
    /\ rowIndex = -1
    /\ EditIdle
    /\ AppIdle

\* line 799
FindByNumber ==
    /\ mpc = "number"
    /\ rowIndex' = findStudentRowByNumber(studentNum, values,
                                          worksheetStructure.studentNumberColumn)
    /\ mpc' = IF rowIndex' = -1 THEN "name" ELSE "found"
    /\ UNCHANGED <<studentNum, studentName, values, worksheetStructure>>
    /\ UNCHANGED <<pipelineVars, textVars, uiVars>>

\* lines 802-804
FindByName ==
    /\ mpc = "name"
    /\ rowIndex' = findStudentRowByName(studentName, values,
                                        worksheetStructure.studentNameColumn)
    /\ mpc' = IF rowIndex' = -1 THEN "notFound" ELSE "found"
    /\ UNCHANGED <<studentNum, studentName, values, worksheetStructure>>
    /\ UNCHANGED <<pipelineVars, textVars, uiVars>>

NextMatch == FindByNumber \/ FindByName
SpecMatch == InitMatch /\ [][NextMatch]_vars


(***************************************************************************)
(* ExcelService.editDistance and normalizeArabicText applied to two texts  *)
(***************************************************************************)
\* longest text drawn over the two letters a and b
MaxStrLen == 3

\* every text of a's and b's up to MaxStrLen characters
ShortTexts == UNION {[1..n -> {97, 98}] : n \in 0..MaxStrLen}

\* "abc", "kitten", "sitting"
TextAbc == <<97, 98, 99>>
TextKitten == <<107, 105, 116, 116, 101, 110>>
TextSitting == <<115, 105, 116, 116, 105, 110, 103>>
\* Ahmad with bare alef, with alef-hamza above (U+0623), with alef-madda
\* (U+0622) and with alef-hamza below (U+0625)
TextAhmad == <<1575, 1581, 1605, 1583>>
TextAhmadHamza == <<1571, 1581, 1605, 1583>>
TextAhmadMadda == <<1570, 1581, 1605, 1583>>
TextAhmadBelow == <<1573, 1581, 1605, 1583>>
\* Muhammad bare and with shadda (U+0651) on the second mim
TextMuhammad == <<1605, 1581, 1605, 1583>>
TextMuhammadShadda == <<1605, 1581, 1605, 1617, 1583>>
\* Fatima with ta marbuta (U+0629) and with ha (U+0647)
TextFatimaTa == <<1601, 1575, 1591, 1605, 1577>>
TextFatimaHa == <<1601, 1575, 1591, 1605, 1607>>
\* Mustafa with alef maqsura (U+0649) and with ya (U+064A)
TextMustafaMaqsura == <<1605, 1589, 1591, 1601, 1609>>
TextMustafaYa == <<1605, 1589, 1591, 1601, 1610>>
\* " Rene ", "rene", "rene" with a combining acute (U+0301), with e-acute (U+00E9)
TextReneSpaced == <<32, 82, 101, 110, 101, 32>>
TextRene == <<114, 101, 110, 101>>
TextReneCombining == <<114, 101, 110, 101, 769>>
TextReneAcute == <<114, 101, 110, 233>>

TextPool ==
    ShortTexts \cup
    {TextAbc, TextKitten, TextSitting, TextAhmad, TextAhmadHamza,
     TextAhmadMadda, TextAhmadBelow, TextMuhammad, TextMuhammadShadda,
     TextFatimaTa, TextFatimaHa, TextMustafaMaqsura, TextMustafaYa,
     TextReneSpaced, TextRene, TextReneCombining, TextReneAcute}

InitText ==
    /\ PipelineIdle
    /\ MatchIdle
    /\ tpc = "idle"
    /\ s1 \in TextPool
    /\ s2 \in TextPool
    /\ distance = -1
    /\ normalized = << >>
    /\ EditIdle
    /\ AppIdle

\* this.editDistance(s1, s2)
ApplyEditDistance ==
    /\ tpc = "idle"
    /\ distance' = editDistance(s1, s2)
    /\ tpc' = "distance"
    /\ UNCHANGED <<s1, s2, normalized>>
    /\ UNCHANGED <<pipelineVars, matchVars, uiVars>>

\* this.normalizeArabicText(s1) and this.normalizeArabicText(s2), as at lines
\* 895 and 899
ApplyNormalize ==
    /\ tpc = "idle"
    /\ normalized' = <<normalizeArabicText(s1), normalizeArabicText(s2)>>
    /\ tpc' = "normalized"
    /\ UNCHANGED <<s1, s2, distance>>
    /\ UNCHANGED <<pipelineVars, matchVars, uiVars>>

NextText == ApplyEditDistance \/ ApplyNormalize
SpecText == InitText /\ [][NextText]_vars


(***************************************************************************)
(* TableDetectionService.extractStudentData applied to a table structure   *)
(***************************************************************************)
\* extractStudentData is a public method: its argument is any TableStructure
\* most entries of markColumns
MaxMarkColumns == 5

\* rows of four segments: id, name and two marks
\* "1", Ahmad, "12.346", "7"
ExtractRowA == <<<<49>>, <<1571, 1581, 1605, 1583>>, <<49, 50, 46, 51, 52, 54>>, <<55>>>>
\* "2", Said, "x", "15,5"
ExtractRowB == <<<<50>>, <<1587, 1593, 1610, 1583>>, <<120>>, <<49, 53, 44, 53>>>>
\* "3", no name, no first mark, "20"
ExtractRowC == <<<<51>>, << >>, << >>, <<50, 48>>>>
\* raqm, ism, al-fard, nuqta
ExtractHeader == <<KwRaqm, KwIsm, KwAlFard, KwNuqta>>

\* the cells of a grid of segments (parseLine, lines 191-207)
CellsOf(rows) ==
    [r \in 1..Len(rows) |->
        [c \in 1..Len(rows[r]) |-> MakeCell(rows[r][c], r - 1, c - 1)]]

ExtractGrids ==
    {CellsOf(<<ExtractHeader, ExtractRowA, ExtractRowB, ExtractRowC>>),
     CellsOf(<<ExtractHeader, ExtractRowB>>)}

\* column 4 is outside the rows
MarkColumnLists == UNION {[1..n -> 1..4] : n \in 0..MaxMarkColumns}

InitExtract ==
    /\ MatchIdle
    /\ TextIdle
    /\ extractedText = << >>
    /\ lines = << >>
    /\ grid \in ExtractGrids
    /\ \E markColumns \in MarkColumnLists :
          tableStructure =
              [headerRow |-> 0, studentIdColumn |-> 0, studentNameColumn |-> 1,
               markColumns |-> markColumns, rowCount |-> Len(grid),
               colCount |-> 4, cells |-> grid]
    /\ pc = "extract"
    /\ studentsFromTable = << >>
    /\ studentsFromPatterns = << >>
    /\ studentsFromBasic = << >>
    /\ invoked = <<"table">>
    /\ returned = << >>
    /\ raised = FALSE
    /\ runs = 1
    /\ firstText = << >>
    /\ firstReturned = << >>
    /\ sawOther = FALSE
    /\ EditIdle
    /\ AppIdle

NextExtract == ExtractTable
SpecExtract == InitExtract /\ [][NextExtract]_vars


(***************************************************************************)
(* Properties of the extraction pipeline                                   *)
(***************************************************************************)
\* the four mark slots of a record
MarkSlots(student) ==
    {student.marks.fard1, student.marks.fard2, student.marks.fard3,
     student.marks.activities}

\* what each strategy gives the lines of a call, taken alone
TableOutput(ls) ==
    LET ts == detectTable(createPreliminaryGrid(ls))
    IN  IF ts = NoTable THEN << >> ELSE extractStudentData(ts, << >>)
PatternOutput(ls) == extractStudentsByPatterns(ls, << >>)
BasicOutput(ls) == extractBasicStudentData(ls, << >>)

\* C1: every mark of every record the pipeline returns, whichever strategy
\* produced it, is null or a number in [0, 20]
C1_GradeBound ==
    pc = "done" =>
        \A k \in 1..Len(returned) :
            \A m \in MarkSlots(returned[k]) :
                m = NULL \/ (m >= 0 /\ m <= 20 * Scale)

\* C2: the list the coordinator returns is the table strategy's list if that
\* is non-empty, else the pattern strategy's list if that is non-empty, else
\* the basic strategy's list; it is never a merge of two of them
C2_OneStrategyOutput ==
    pc = "done" =>
        returned = IF TableOutput(lines) # << >> THEN TableOutput(lines)
                   ELSE IF PatternOutput(lines) # << >> THEN PatternOutput(lines)
                   ELSE BasicOutput(lines)

\* a call where two strategies both find records and only the first is returned
C2_Witness ==
    /\ pc = "done"
    /\ TableOutput(lines) # << >>
    /\ PatternOutput(lines) # << >>
    /\ PatternOutput(lines) # TableOutput(lines)
    /\ returned = TableOutput(lines)

\* C3: the strategies are invoked in the order table, patterns, basic, each at
\* most once, and one is invoked only if every earlier one returned no record
C3_FixedOrder ==
    /\ invoked \in {<< >>, <<"table">>, <<"table", "patterns">>,
                    <<"table", "patterns", "basic">>}
    /\ (Len(invoked) >= 2 => studentsFromTable = << >>)
    /\ (Len(invoked) >= 3 => studentsFromPatterns = << >>)
    /\ (pc = "done" /\ studentsFromTable # << >> => invoked = <<"table">>)

\* the table strategy gave a record, and the pattern strategy, which would
\* have given records too, was not invoked
C3_Witness ==
    /\ pc = "done"
    /\ studentsFromTable # << >>
    /\ invoked = <<"table">>
    /\ PatternOutput(lines) # << >>

\* C4: for every input text the coordinator never raises and is always at a
\* step that takes it on to the return of a list; an empty grid or a strategy
\* that recovers nothing only triggers the next fallback
C4_NeverRaises ==
    /\ ~raised
    /\ pc \in {"split", "grid", "structure", "extract", "patterns", "basic", "done"}
    /\ (pc = "done" /\ grid = << >> => Len(invoked) >= 2)
    /\ (pc = "done" /\ returned = << >> => invoked = <<"table", "patterns", "basic">>)

\* a call that returned although a row of the table has no cell in the name
\* column
C4_Witness ==
    /\ pc = "done"
    /\ ~raised
    /\ tableStructure # NoTable
    /\ \E r \in (tableStructure.headerRow + 1)..(tableStructure.rowCount - 1) :
          IsUndefined(CellAt(tableStructure.cells[r + 1],
                             tableStructure.studentNameColumn))

NameAhmad == <<1571, 1581, 1605, 1583>>
NameSaid == <<1587, 1593, 1610, 1583>>

\* C6: on the Scenario A text the table strategy yields exactly two records:
\* number 1, the first name, fard1 15.5, fard2 12.0 and number 2, the second
\* name, fard1 18.0, fard2 9.5
C6_ScenarioA ==
    (extractedText = ScenarioAText /\ pc = "done") =>
        /\ Len(studentsFromTable) = 2
        /\ studentsFromTable[1].number = 1 * Scale
        /\ studentsFromTable[1].name = NameAhmad
        /\ studentsFromTable[1].marks.fard1 = 15500
        /\ studentsFromTable[1].marks.fard2 = 12000
        /\ studentsFromTable[2].number = 2 * Scale
        /\ studentsFromTable[2].name = NameSaid
        /\ studentsFromTable[2].marks.fard1 = 18000
        /\ studentsFromTable[2].marks.fard2 = 9500

ValidColumn(ts, col) == 0 <= col /\ col < ts.colCount

\* C7: in every table structure detectTable returns, headerRow < rowCount, the
\* id column, the name column and every mark column are valid column indices,
\* and they are pairwise distinct
C7_StructureValid ==
    tableStructure # NoTable =>
        LET ts == tableStructure
            marks == ts.markColumns
        IN  /\ ts.headerRow < ts.rowCount
            /\ ValidColumn(ts, ts.studentIdColumn)
            /\ ValidColumn(ts, ts.studentNameColumn)
            /\ \A k \in 1..Len(marks) : ValidColumn(ts, marks[k])
            /\ ts.studentIdColumn # ts.studentNameColumn
            /\ \A k \in 1..Len(marks) :
                  marks[k] \notin {ts.studentIdColumn, ts.studentNameColumn}
            /\ \A j, k \in 1..Len(marks) : j # k => marks[j] # marks[k]

\* the number of cells parseLine gives the k-th table line
ParsedLength(rows, k) == Len(parseLine(rows[k], k - 1))

\* C8: all rows of the grid have the same length, the largest number of cells
\* parsed on a row; a padding cell has empty text, is not numeric and has a
\* null value; the position of every cell is its row and column in the grid
C8_GridRectangular ==
    pc \notin {"split", "grid"} =>
        LET rows == TableLines(lines)
            width == IF rows = << >> THEN 0
                     ELSE SetMax({ParsedLength(rows, k) : k \in 1..Len(rows)})
        IN  /\ Len(grid) = Len(rows)
            /\ \A r \in 1..Len(grid) :
                  /\ Len(grid[r]) = width
                  /\ \A c \in 1..Len(grid[r]) :
                        /\ grid[r][c].position = [row |-> r - 1, col |-> c - 1]
                        /\ c > ParsedLength(rows, r) =>
                              /\ grid[r][c].text = << >>
                              /\ ~grid[r][c].isNumeric
                              /\ grid[r][c].value = NULL

\* a grid of two rows or more where a later row is longer than the first and
\* the first was padded
C8_Witness ==
    /\ pc = "structure"
    /\ Len(grid) >= 2
    /\ ParsedLength(TableLines(lines), 1) < Len(grid[1])
    /\ grid[1][Len(grid[1])] = EmptyCell(0, Len(grid[1]) - 1)

\* C9: the student number of every returned record is an integer
C9_IntegerNumber ==
    pc = "done" =>
        \A k \in 1..Len(returned) : returned[k].number % Scale = 0

\* the decimal digits outside ASCII that the texts can hold: Arabic-Indic
\* U+0660..U+0669 and Extended Arabic-Indic U+06F0..U+06F9
IsNativeDigit(c) == c \in (1632..1641) \cup (1776..1785)
AsciiEquivalent(c) ==
    IF c \in 1632..1641 THEN c - 1632 + 48
    ELSE IF c \in 1776..1785 THEN c - 1776 + 48
    ELSE c

\* C10: the lines handed to the strategies are the trimmed non-empty lines of
\* the text with every native decimal digit replaced by its ASCII equivalent,
\* one character for one, every other character unchanged; no line holds a
\* native decimal digit
C10_NoNativeDigit ==
    pc # "split" =>
        LET raw == SplitChar(extractedText, NL)
            kept == SelectSeq([i \in 1..Len(raw) |-> Trim(raw[i])], NonEmpty)
        IN  /\ Len(lines) = Len(kept)
            /\ \A i \in 1..Len(lines) :
                  /\ Len(lines[i]) = Len(kept[i])
                  /\ \A j \in 1..Len(lines[i]) :
                        /\ lines[i][j] = AsciiEquivalent(kept[i][j])
                        /\ ~IsNativeDigit(lines[i][j])

(***************************************************************************)
(* Properties of the roster lookup                                         *)
(***************************************************************************)
\* a is a suffix of b
IsSuffix(a, b) == \E k \in 0..Len(b) : a = SubSeq(b, k + 1, Len(b))

\* one of the two ids, digits only, is a suffix of the other
SuffixRelated(idA, idB) ==
    LET a == SelectSeq(idA, IsDigit)
        b == SelectSeq(idB, IsDigit)
    IN  IsSuffix(a, b) \/ IsSuffix(b, a)

\* the smallest element of rows, -1 for no row
FirstRow(rows) ==
    IF rows = {} THEN -1 ELSE CHOOSE i \in rows : \A j \in rows : i <= j

\* the id cell of roster row i (0-based)
IdCell(i) == values[i + 1][worksheetStructure.studentNumberColumn + 1]

\* C11 as stated: findStudentRowByNumber returns the smallest row index
\* i >= 1 whose id cell, digits only, is suffix-related to the target id,
\* digits only, and -1 when there is no such row
C11_Original ==
    [][FindByNumber =>
          rowIndex' = FirstRow({i \in 1..(Len(values) - 1) :
                                   SuffixRelated(studentNum, IdCell(i))})]_vars

\* C11: findStudentRowByNumber returns the smallest row index i >= 1 whose id
\* cell is not empty and, digits only, is suffix-related to the target id,
\* digits only; it returns -1 when there is no such row, and never row 0
C11_FirstSuffixRow ==
    [][FindByNumber =>
          /\ rowIndex' # 0
          /\ rowIndex' = FirstRow({i \in 1..(Len(values) - 1) :
                                      /\ IdCell(i) # << >>
                                      /\ SuffixRelated(studentNum, IdCell(i))})]_vars

\* the lookup by number passed over a row with an empty id cell and returned a
\* later row whose id is the longer of the two
C11_Witness ==
    /\ mpc = "found"
    /\ rowIndex = 2
    /\ IdCell(1) = << >>
    /\ IdCell(2) # << >>
    /\ Len(SelectSeq(IdCell(2), IsDigit)) > Len(SelectSeq(studentNum, IsDigit))
    /\ Len(SelectSeq(studentNum, IsDigit)) > 0
    /\ SuffixRelated(studentNum, IdCell(2))

\* the smaller of three numbers
Min3(a, b, c) == IF a <= b /\ a <= c THEN a ELSE IF b <= c THEN b ELSE c

\* row i >= 1 of the Levenshtein matrix of a and b up to column j, from the row
\* above: D[i][0] = i, D[i][j] = min(D[i-1][j] + 1, D[i][j-1] + 1,
\* D[i-1][j-1] + (0 if a[i] = b[j], else 1)); column j is element j + 1
RECURSIVE LevRow(_, _, _, _, _)
LevRow(a, b, i, above, j) ==
    IF j = 0 THEN <<i>>
    ELSE LET left == LevRow(a, b, i, above, j - 1)
         IN  Append(left, Min3(above[j + 1] + 1, left[j] + 1,
                               above[j] + (IF a[i] = b[j] THEN 0 ELSE 1)))

\* rows 0..i of the Levenshtein matrix; row 0 is D[0][j] = j
RECURSIVE LevMatrix(_, _, _)
LevMatrix(a, b, i) ==
    IF i = 0 THEN <<[j \in 1..(Len(b) + 1) |-> j - 1]>>
    ELSE LET rows == LevMatrix(a, b, i - 1)
         IN  Append(rows, LevRow(a, b, i, rows[i], Len(b)))

\* the unit-cost insert, delete, substitute distance of a and b
Levenshtein(a, b) == LevMatrix(a, b, Len(a))[Len(a) + 1][Len(b) + 1]

\* a holds b as a run of consecutive characters
IsSubstring(b, a) ==
    \E k \in 0..(Len(a) - Len(b)) : SubSeq(a, k + 1, k + Len(b)) = b

\* the similarity of two normalized names as a ratio: <<n, d>> stands for n / d
Similarity(a, b) ==
    LET longer == IF Len(a) >= Len(b) THEN a ELSE b
        shorter == IF Len(a) >= Len(b) THEN b ELSE a
    IN  IF a = b THEN <<100, 100>>
        ELSE IF IsSubstring(shorter, longer) THEN <<90, 100>>
        ELSE <<100 * (Len(longer) - Levenshtein(longer, shorter)), 100 * Len(longer)>>

\* the normalized name of roster row i (0-based), empty when the row has no
\* name cell
RowName(i) ==
    LET c == worksheetStructure.studentNameColumn
    IN  IF c >= 0 /\ c < Len(values[i + 1]) THEN normalizeArabicText(values[i + 1][c + 1])
        ELSE << >>

\* the similarity of roster row i to the target name
RowSimilarity(i) == Similarity(normalizeArabicText(studentName), RowName(i))

\* C12: findStudentRowByName returns the smallest row index i >= 1 whose
\* similarity to the target (1.0 for identical normalized names, 0.9 when the
\* longer holds the shorter, else (len(longer) - distance) / len(longer))
\* is strictly above 0.70, and -1 when there is no such row
C12_FirstSimilarRow ==
    [][FindByName =>
          rowIndex' = FirstRow({i \in 1..(Len(values) - 1) :
                                   100 * RowSimilarity(i)[1] > 70 * RowSimilarity(i)[2]})]_vars

\* no id matched, row 1 has a similarity of exactly 0.70 to the target by
\* edit distance and was passed over, row 2 was accepted
C12_Witness ==
    /\ mpc = "found"
    /\ rowIndex = 2
    /\ \A i \in 1..(Len(values) - 1) :
          IdCell(i) = << >> \/ ~SuffixRelated(studentNum, IdCell(i))
    /\ ~IsSubstring(RowName(1), normalizeArabicText(studentName))
    /\ Len(RowName(1)) = 10
    /\ Levenshtein(normalizeArabicText(studentName), RowName(1)) = 3
    /\ 100 * RowSimilarity(1)[1] = 70 * RowSimilarity(1)[2]

\* C13: editDistance(s1, s2) is the Levenshtein distance of s1 and s2, in
\* either order of the arguments and with empty strings; it is 3 for
\* ("", "abc") and for ("kitten", "sitting")
C13_EditDistanceIsLevenshtein ==
    tpc = "distance" =>
        /\ distance = Levenshtein(s1, s2)
        /\ distance = Levenshtein(s2, s1)
        /\ (s1 = << >> => distance = Len(s2))
        /\ (s2 = << >> => distance = Len(s1))
        /\ (s1 = << >> /\ s2 = TextAbc => distance = 3)
        /\ (s1 = TextKitten /\ s2 = TextSitting => distance = 3)
        /\ (s1 = TextSitting /\ s2 = TextKitten => distance = 3)

\* the distance of ("kitten", "sitting") was computed
C13_Witness ==
    /\ tpc = "distance"
    /\ s1 = TextKitten
    /\ s2 = TextSitting
    /\ distance = 3

\* a combining diacritic mark: the Latin block U+0300..U+036F, the Arabic
\* harakat, shadda, sukun, madda and hamza marks U+064B..U+065F, and the
\* superscript alef U+0670
IsDiacritic(c) == c \in (768..879) \cup (1611..1631) \cup {1648}
NotDiacritic(c) == ~IsDiacritic(c)

\* one letter for each group of allographic variants and of letter cases
CanonLetter(c) ==
    IF c \in {1570, 1571, 1573} THEN 1575
    ELSE IF c = 1577 THEN 1607
    ELSE IF c = 1609 THEN 1610
    ELSE IF c \in 65..90 THEN c + 32
    ELSE c

\* a name without its diacritic marks and surrounding whitespace, variants
\* and cases folded: two names differ only in these exactly when their
\* canonical forms are equal
Canon(t) ==
    LET bare == Trim(SelectSeq(t, NotDiacritic))
    IN  [k \in 1..Len(bare) |-> CanonLetter(bare[k])]

\* C14: two names that differ only by combining diacritic marks, by an alef
\* with hamza or madda for a bare alef, by ta marbuta for ha, by alef maqsura
\* for ya, by surrounding whitespace or by letter case are mapped to the same
\* string by normalizeArabicText
C14_VariantsNormalizeEqual ==
    tpc = "normalized" =>
        (Canon(s1) = Canon(s2) => normalized[1] = normalized[2])

(***************************************************************************)
(* Properties of the record extractor                                      *)
(***************************************************************************)
\* x, a number of thousandths, rounded to hundredths, halves upwards
Round2(x) == CHOOSE r \in (x - 4)..(x + 5) : r % 10 = 0

\* what the k-th entry of markColumns (k = 1..4) gives the record of grid row
\* r (1-based): the rounded value of a numeric cell, null for a cell that is
\* not numeric, for an index outside the row and for a missing entry
SlotOf(r, k) ==
    LET markColumns == tableStructure.markColumns
        row == tableStructure.cells[r]
    IN  IF k > Len(markColumns) THEN NULL
        ELSE IF markColumns[k] + 1 > Len(row) THEN NULL
        ELSE IF ~row[markColumns[k] + 1].isNumeric THEN NULL
        ELSE Round2(row[markColumns[k] + 1].value)

\* the grid rows (1-based) extractStudentData makes a record of: the rows after
\* the header with a text in the id cell or in the name cell
RecordRows ==
    {r \in (tableStructure.headerRow + 2)..Len(tableStructure.cells) :
        \/ CellAt(tableStructure.cells[r], tableStructure.studentIdColumn).text # << >>
        \/ CellAt(tableStructure.cells[r], tableStructure.studentNameColumn).text # << >>}

\* the k-th of them from the top
RecordRow(k) ==
    CHOOSE r \in RecordRows : Cardinality({q \in RecordRows : q < r}) = k - 1

\* C15: the record of each data row holds in fard1, fard2, fard3, activities
\* what the first, second, third and fourth entry of markColumns give: the
\* cell value rounded to 2 decimals for a numeric cell, null otherwise; later
\* entries change nothing, and an index outside the row is passed over
\* without an exception
C15_SlotsFollowMarkColumns ==
    (pc = "done" /\ invoked = <<"table">>) =>
        /\ ~raised
        /\ Len(studentsFromTable) = Cardinality(RecordRows)
        /\ \A k \in 1..Len(studentsFromTable) :
              studentsFromTable[k].marks =
                  [fard1 |-> SlotOf(RecordRow(k), 1), fard2 |-> SlotOf(RecordRow(k), 2),
                   fard3 |-> SlotOf(RecordRow(k), 3), activities |-> SlotOf(RecordRow(k), 4)]

\* five mark columns, the second outside the rows, the fifth a numeric column:
\* the first record holds a rounded mark and a null for the missing column
C15_Witness ==
    /\ pc = "done"
    /\ ~raised
    /\ tableStructure.markColumns = <<2, 4, 3, 1, 3>>
    /\ Len(studentsFromTable) = 3
    /\ studentsFromTable[1].marks =
          [fard1 |-> 12350, fard2 |-> NULL, fard3 |-> 7000, activities |-> NULL]
    /\ tableStructure.cells[2][3].value = 12346

(***************************************************************************)
(* Properties of the grid builder                                          *)
(***************************************************************************)
\* t with every comma replaced by a period
CommasToPeriods(t) == [k \in 1..Len(t) |-> IF t[k] = COMMA THEN DOT ELSE t[k]]

\* t is one or more digits
AllDigits(t) == Len(t) > 0 /\ \A k \in 1..Len(t) : t[k] \in 48..57

\* t is a plain integer or decimal numeral: digits, optionally followed by a
\* period and digits, and nothing else
PlainNumeral(t) ==
    \/ AllDigits(t)
    \/ \E p \in 2..(Len(t) - 1) :
          /\ t[p] = DOT
          /\ AllDigits(SubSeq(t, 1, p - 1))
          /\ AllDigits(SubSeq(t, p + 1, Len(t)))

\* C16: a cell of the grid is numeric exactly when its trimmed text, commas
\* replaced by periods, is wholly a plain integer or decimal numeral; a
\* segment that only contains such a numeral is not numeric
C16_NumericIffPlainNumeral ==
    \A r \in 1..Len(grid) : \A c \in 1..Len(grid[r]) :
        grid[r][c].isNumeric <=> PlainNumeral(CommasToPeriods(Trim(grid[r][c].text)))

\* a character that joins a numeral to its neighbour: a digit, a Latin letter
\* or an underscore; Clear(s, i) holds when position i of s has none
IsWordChar(c) == c \in (48..57) \cup (65..90) \cup (97..122) \cup {95}
Clear(s, i) == i < 1 \/ i > Len(s) \/ ~IsWordChar(s[i])

\* t is one or two digits, optionally followed by a period or comma and one or
\* two digits
TokenShape(t) ==
    \E n \in 1..2 :
        /\ n <= Len(t)
        /\ AllDigits(SubSeq(t, 1, n))
        /\ \/ Len(t) = n
           \/ /\ Len(t) - n - 1 \in 1..2
              /\ t[n + 1] \in {DOT, COMMA}
              /\ AllDigits(SubSeq(t, n + 2, Len(t)))

\* s[p..q] is a standalone token
IsToken(s, p, q) ==
    /\ 1 <= p /\ p <= q /\ q <= Len(s)
    /\ TokenShape(SubSeq(s, p, q))
    /\ Clear(s, p - 1)
    /\ Clear(s, q + 1)

\* the end of the longest token that starts at p, 0 when there is none
TokenEnd(s, p) ==
    LET ends == {q \in p..(p + 4) : IsToken(s, p, q)}
    IN  IF ends = {} THEN 0 ELSE CHOOSE q \in ends : \A e \in ends : e <= q

\* the token occurrences <<p, q>> of s from position p on, left to right
RECURSIVE TokenSpans(_, _)
TokenSpans(s, p) ==
    IF p > Len(s) THEN << >>
    ELSE IF TokenEnd(s, p) # 0
    THEN <<<<p, TokenEnd(s, p)>>>> \o TokenSpans(s, TokenEnd(s, p) + 1)
    ELSE TokenSpans(s, p + 1)

\* the parts of s between the occurrences, from position p on
RECURSIVE Remainder(_, _, _)
Remainder(s, spans, p) ==
    IF spans = << >> THEN <<SubSeq(s, p, Len(s))>>
    ELSE <<SubSeq(s, p, Head(spans)[1] - 1)>>
         \o Remainder(s, Tail(spans), Head(spans)[2] + 1)

\* the cells C17 gives a line: the parts between the token occurrences that
\* are not blank, trimmed, then the tokens
HarvestedCells(line) ==
    LET spans == TokenSpans(line, 1)
        parts == Remainder(line, spans, 1)
        trimmed == [k \in 1..Len(parts) |-> Trim(parts[k])]
    IN  SelectSeq(trimmed, NonEmpty)
        \o [k \in 1..Len(spans) |-> SubSeq(line, spans[k][1], spans[k][2])]

\* the texts of the cells of a grid row that are not padding
RowTexts(row) == SelectSeq([c \in 1..Len(row) |-> row[c].text], NonEmpty)

\* C17: a line that gives at most one segment on runs of whitespace and pipes
\* and holds standalone tokens becomes the parts left between exactly those
\* token occurrences followed by the tokens in order: no leading cell holds a
\* token occurrence or a piece of a number it was cut out of
C17_HarvestCutsTokenOccurrences ==
    pc \notin {"split", "grid"} =>
        \A r \in 1..Len(grid) :
            LET line == TableLines(lines)[r]
            IN  (/\ Len(SelectSeq(SplitColumns(line, 1, 1), TrimNonEmpty)) <= 1
                 /\ TokenSpans(line, 1) # << >>)
                => RowTexts(grid[r]) = HarvestedCells(line)

(***************************************************************************)
(* Properties of the structure identifier                                  *)
(***************************************************************************)
\* a text of native-script (Arabic block) characters and whitespace only,
\* with a native-script character in it
PureNative(t) ==
    /\ \E k \in 1..Len(t) : t[k] \in 1536..1791
    /\ \A k \in 1..Len(t) : t[k] \in (1536..1791) \cup WhiteSpace

\* how many data rows have such a cell in column c (0-based)
PureNativeCount(c) ==
    Cardinality({r \in (tableStructure.headerRow + 2)..Len(grid) :
                    c + 1 <= Len(grid[r]) /\ PureNative(grid[r][c + 1].text)})

\* no cell of the header row names the name column
NameUnresolved ==
    \A c \in 1..Len(grid[tableStructure.headerRow + 1]) :
        LET cellText == ToLowerCase(grid[tableStructure.headerRow + 1][c].text)
        IN  ~Includes(cellText, KwIsm) /\ ~Includes(cellText, KwTilmidh)

\* the columns (0-based) other than the id column
OtherColumns == (0..(tableStructure.colCount - 1)) \ {tableStructure.studentIdColumn}

\* C18: when the header row names no name column and some column other than
\* the id column has a data cell of native-script characters and whitespace
\* only, the name column is a column other than the id column with the
\* highest count of such cells; cells that mix native-script characters with
\* digits or other characters are not counted
C18_NameColumnByPureCells ==
    (/\ pc \notin {"split", "grid", "structure"}
     /\ tableStructure # NoTable
     /\ NameUnresolved
     /\ \E c \in OtherColumns : PureNativeCount(c) > 0)
    => /\ tableStructure.studentNameColumn \in OtherColumns
       /\ \A c \in OtherColumns :
             PureNativeCount(c) <= PureNativeCount(tableStructure.studentNameColumn)

(***************************************************************************)
(* Properties of the pattern-based extractor                               *)
(***************************************************************************)
\* the value of a token in thousandths: one decimal digit counts tenths, two
\* count hundredths
DigitsNumber(ds) ==
    IF Len(ds) = 1 THEN ds[1] - 48 ELSE 10 * (ds[1] - 48) + (ds[2] - 48)

ValueOfToken(t) ==
    LET n == IF Len(t) >= 2 /\ t[2] \in 48..57 THEN 2 ELSE 1
        decimals == SubSeq(t, n + 2, Len(t))
    IN  1000 * DigitsNumber(SubSeq(t, 1, n))
        + (IF Len(decimals) = 0 THEN 0
           ELSE IF Len(decimals) = 1 THEN 100 * DigitsNumber(decimals)
           ELSE 10 * DigitsNumber(decimals))

\* the line holds one of the metadata keywords (date, season, school year,
\* kingdom, ministry)
HasMetadataKeyword(line) ==
    \E kw \in {KwTarikh, KwMawsim, KwDirasi, KwMamlaka, KwWizara} :
        \E p \in 1..(Len(line) - Len(kw) + 1) : SubSeq(line, p, p + Len(kw) - 1) = kw

ValueInRange(v) == 0 <= v /\ v <= 20000

\* the values in [0, 20] of the standalone tokens of one line, left to right
LineHarvest(line) ==
    LET spans == TokenSpans(line, 1)
        vals == [k \in 1..Len(spans) |->
                    ValueOfToken(SubSeq(line, spans[k][1], spans[k][2]))]
    IN  SelectSeq(vals, ValueInRange)

\* the harvest of the lines i..Len(ls) in reading order, metadata lines
\* left out
RECURSIVE HarvestFrom(_, _)
HarvestFrom(ls, i) ==
    IF i > Len(ls) THEN << >>
    ELSE (IF HasMetadataKeyword(ls[i]) THEN << >> ELSE LineHarvest(ls[i]))
         \o HarvestFrom(ls, i + 1)

\* C19: the mark harvest over the whole line list is, in reading order, the
\* values in [0, 20] of the standalone 1-2 digit tokens (with an optional
\* decimal part after a period or comma) of the lines without a metadata
\* keyword; a token of a metadata line or above 20 is not in it
C19_HarvestWholeText ==
    pc # "split" => extractMarkValues(lines) = HarvestFrom(lines, 1)

\* the pattern strategy returned records for a text with a metadata line that
\* holds a token and another line with a token above 20
C19_Witness ==
    /\ pc = "done"
    /\ returned = studentsFromPatterns
    /\ Len(studentsFromPatterns) > 0
    /\ \E i \in 1..Len(lines) :
          HasMetadataKeyword(lines[i]) /\ TokenSpans(lines[i], 1) # << >>
    /\ \E i \in 1..Len(lines) :
          /\ ~HasMetadataKeyword(lines[i])
          /\ Len(LineHarvest(lines[i])) < Len(TokenSpans(lines[i], 1))
    /\ Len(HarvestFrom(lines, 1)) > 0

\* the share of each student: min(4, floor(h / n))
Share(h, n) == IF h \div n < 4 THEN h \div n ELSE 4

\* slot j (0..3) of the student at sorted position k (0-based) for the
\* harvest h and the share m
SlotValue(h, m, k, j) == IF j < m THEN h[k * m + j + 1] ELSE NULL

\* C20: the pattern-based extractor returns its n records by ascending
\* numeric id; with h harvested values and m = min(4, floor(h / n)), the
\* student at sorted position k holds the harvested values k*m .. k*m + m - 1
\* in fard1..activities and null in the other slots, so the values from
\* index n*m on are given to no one
C20_MarksDealtInOrder ==
    (pc = "done" /\ Len(studentsFromPatterns) > 0) =>
        LET h == HarvestFrom(lines, 1)
            n == Len(studentsFromPatterns)
            m == Share(Len(h), n)
        IN  /\ \A k \in 1..(n - 1) :
                  studentsFromPatterns[k].number <= studentsFromPatterns[k + 1].number
            /\ \A k \in 0..(n - 1) :
                  studentsFromPatterns[k + 1].marks =
                      [fard1 |-> SlotValue(h, m, k, 0), fard2 |-> SlotValue(h, m, k, 1),
                       fard3 |-> SlotValue(h, m, k, 2), activities |-> SlotValue(h, m, k, 3)]

\* two students share three harvested values: one each in fard1, the third
\* value given to no one
C20_Witness ==
    /\ pc = "done"
    /\ returned = studentsFromPatterns
    /\ Len(studentsFromPatterns) = 2
    /\ Len(HarvestFrom(lines, 1)) = 3
    /\ studentsFromPatterns[1].number < studentsFromPatterns[2].number
    /\ studentsFromPatterns[1].marks.fard1 = HarvestFrom(lines, 1)[1]
    /\ studentsFromPatterns[2].marks.fard1 = HarvestFrom(lines, 1)[2]
    /\ studentsFromPatterns[1].marks.fard2 = NULL
    /\ studentsFromPatterns[2].marks.fard2 = NULL

(***************************************************************************)
(* Safety of the roster lookup                                             *)
(***************************************************************************)
\* C25: findStudentRowByNumber never returns a roster row whose id cell
\* holds no digit, whatever the target id is
C25_MatchedIdHasDigit ==
    [][FindByNumber =>
          (rowIndex' # -1 =>
              \E k \in 1..Len(IdCell(rowIndex')) : IdCell(rowIndex')[k] \in 48..57)]_vars

\* C26: for a target name that is not empty, findStudentRowByName never
\* returns a roster row whose name cell is empty or normalizes to the empty
\* string
C26_MatchedNameNotEmpty ==
    [][FindByName =>
          ((studentName # << >> /\ rowIndex' # -1) => RowName(rowIndex') # << >>)]_vars

(***************************************************************************)
(* Properties of the student-info stage and of the basic extractor         *)
(***************************************************************************)
NativeChars == 1536..1791
Blanks == {32, 9}

\* the end of the run of characters of class from position p on (p - 1 when
\* there is none)
RECURSIVE RunOf(_, _, _)
RunOf(t, p, class) ==
    IF p <= Len(t) /\ t[p] \in class THEN RunOf(t, p + 1, class) ELSE p - 1

\* t without its leading and trailing blanks
Stripped(t) ==
    LET keep == {k \in 1..Len(t) : t[k] \notin Blanks}
    IN  IF keep = {} THEN << >>
        ELSE SubSeq(t, CHOOSE a \in keep : \A b \in keep : a <= b,
                       CHOOSE a \in keep : \A b \in keep : a >= b)

\* the end of the leading integer of a trimmed line, 0 when it starts with none
LeadingIntegerEnd(line) == RunOf(line, 1, 48..57)

\* (a) the line is a leading integer, blanks or pipes, then native-script text
HasIdAndName(line) ==
    /\ LeadingIntegerEnd(line) >= 1
    /\ LET q == RunOf(line, LeadingIntegerEnd(line) + 1, Blanks \cup {PIPE}) + 1
       IN  q <= Len(line) /\ line[q] \in NativeChars

\* the native-script text of such a line
NameAfterId(line) ==
    LET q == RunOf(line, LeadingIntegerEnd(line) + 1, Blanks \cup {PIPE}) + 1
    IN  Stripped(SubSeq(line, q, RunOf(line, q, NativeChars \cup Blanks)))

\* (b) the line is an integer and nothing else
IsBareInteger(line) == Len(line) >= 1 /\ LeadingIntegerEnd(line) = Len(line)

\* a line of native-script characters and blanks only
IsPureNative(line) ==
    Len(line) >= 1 /\ \A k \in 1..Len(line) : line[k] \in NativeChars \cup Blanks

\* (c) the first integer embedded in the line and the line without its digits
EmbeddedInteger(line) ==
    LET f == CHOOSE a \in 1..Len(line) :
                 line[a] \in 48..57 /\ \A b \in 1..(a - 1) : line[b] \notin 48..57
    IN  SubSeq(line, f, RunOf(line, f, 48..57))
DigitStripped(line) ==
    Stripped(SelectSeq(line, NotDigit))

\* the mapping with the entry of id replaced by name
WithEntry(map, id, name) == {e \in map : e[1] # id} \cup {<<id, name>>}

\* the mapping C21 gives the section lines i..Len(section), from map on
RECURSIVE InfoByPatterns(_, _, _)
InfoByPatterns(section, i, map) ==
    IF i > Len(section) THEN map
    ELSE LET line == Stripped(section[i])
         IN  IF IsHeaderLine(line) THEN InfoByPatterns(section, i + 1, map)
             ELSE IF HasIdAndName(line)
             THEN InfoByPatterns(section, i + 1,
                      WithEntry(map, SubSeq(line, 1, LeadingIntegerEnd(line)),
                                NameAfterId(line)))
             ELSE IF IsBareInteger(line)
             THEN IF i + 1 <= Len(section) /\ IsPureNative(section[i + 1])
                  THEN InfoByPatterns(section, i + 2,
                           WithEntry(map, line, Stripped(section[i + 1])))
                  ELSE InfoByPatterns(section, i + 1,
                           WithEntry(map, line, TalibPrefix \o line))
             ELSE IF (\E k \in 1..Len(line) : line[k] \in 48..57)
                     /\ Len(DigitStripped(line)) > 2
             THEN InfoByPatterns(section, i + 1,
                      WithEntry(map, EmbeddedInteger(line), DigitStripped(line)))
             ELSE InfoByPatterns(section, i + 1, map)

\* the entries of the student info of the section of the current lines
StudentInfoEntries ==
    LET info == extractStudentInfoFromSection(findStudentSection(lines))
    IN  {<<info[k].id, info[k].name>> : k \in 1..Len(info)}

\* C21: the student info of the section holds one entry per id string, with
\* the name of the last line that gave the id; header lines are skipped and
\* each other line is read as (a) a leading integer followed by native-script
\* text, else (b) a bare integer named by the next line when that is pure
\* native-script text (then consumed) and by a placeholder otherwise, else
\* (c) its first embedded integer named by the line without its digits when
\* that is longer than 2 characters
C21_StudentInfoByPatterns ==
    pc # "split" =>
        StudentInfoEntries = InfoByPatterns(findStudentSection(lines), 1, {})

(***************************************************************************)
(* Ids and grades in the pattern strategy, names of the returned records   *)
(***************************************************************************)
\* whether line i of ls lies in the student section and gives an id by its
\* leading integer
IsStudentLine(ls, i) ==
    /\ SectionStart(ls) # -1
    /\ i > SectionStart(ls)
    /\ i <= SectionEnd(ls, SectionStart(ls))
    /\ ~IsHeaderLine(Trim(ls[i]))
    /\ (MatchesNamePattern(Trim(ls[i])) \/ MatchesBareNumber(Trim(ls[i])))

\* the line with the digits of its leading integer replaced by the letter x
\* (a word character as a digit is, so every other token keeps its borders)
IdMasked(line) ==
    [k \in 1..Len(line) |->
        IF k > LeadSpaces(line) /\ k <= LeadDigits(line) THEN 120 ELSE line[k]]

\* the lines with the id of every student line masked
IdsMasked(ls) ==
    [i \in 1..Len(ls) |-> IF IsStudentLine(ls, i) THEN IdMasked(ls[i]) ELSE ls[i]]

\* C27: in the pattern strategy the leading integer of a student line, read
\* as the student's id, is never also harvested as a grade: when the
\* strategy builds records, the harvest it deals from is the same as with the
\* ids masked out of the student lines
C27_IdNeverHarvested ==
    [][(TryPatterns /\ studentsFromPatterns' # << >>) =>
          extractMarkValues(lines) = extractMarkValues(IdsMasked(lines))]_vars

\* C28: every record returned by any strategy has a non-empty name
C28_ReturnedNameNotEmpty ==
    pc = "done" => \A k \in 1..Len(returned) : returned[k].name # << >>

(***************************************************************************)
(* Records of the basic extractor                                          *)
(***************************************************************************)
\* the line starts, after optional blanks, with an integer followed by a
\* whitespace character
StartsWithInteger(line) ==
    LET b == RunOf(line, 1, WhiteSpace)
        d == RunOf(line, b + 1, 48..57)
    IN  d > b /\ d + 1 <= Len(line) /\ line[d + 1] \in WhiteSpace

\* the selected lines, in line order
SelectedLines(ls) ==
    LET RECURSIVE From(_)
        From(i) == IF i > Len(ls) THEN << >>
                   ELSE (IF StartsWithInteger(ls[i]) THEN <<ls[i]>> ELSE << >>)
                        \o From(i + 1)
    IN  From(1)

\* the value of the leading integer of a selected line, in thousandths
LeadingInteger(line) ==
    LET b == RunOf(line, 1, WhiteSpace)
        d == RunOf(line, b + 1, 48..57)
        RECURSIVE Value(_)
        Value(k) == IF k <= b THEN 0 ELSE 10 * Value(k - 1) + (line[k] - 48)
    IN  Scale * Value(d)

\* the end of the numeric token (an integer, or a decimal with a period or
\* comma) that starts at the digit at p
NumeralEnd(line, p) ==
    LET d == RunOf(line, p, 48..57)
    IN  IF d + 2 <= Len(line) /\ line[d + 1] \in {DOT, COMMA} /\ line[d + 2] \in 48..57
        THEN RunOf(line, d + 2, 48..57)
        ELSE d

\* the positions of the line covered by its numeric tokens, scanned left to
\* right from p on
RECURSIVE NumeralPositions(_, _)
NumeralPositions(line, p) ==
    IF p > Len(line) THEN {}
    ELSE IF line[p] \in 48..57
    THEN (p..NumeralEnd(line, p)) \cup NumeralPositions(line, NumeralEnd(line, p) + 1)
    ELSE NumeralPositions(line, p + 1)

\* the line with every numeric token stripped, trimmed
NumeralsStripped(line) ==
    LET gone == NumeralPositions(line, 1)
        RECURSIVE Kept(_)
        Kept(k) == IF k = 0 THEN << >>
                   ELSE IF k \in gone THEN Kept(k - 1)
                   ELSE Append(Kept(k - 1), line[k])
    IN  Trim(Kept(Len(line)))

\* the name of the k-th selected line
NameOfSelected(sel, k) ==
    IF Len(NumeralsStripped(sel[k])) >= 3 THEN NumeralsStripped(sel[k])
    ELSE IF k + 1 <= Len(sel) /\ ~StartsWithInteger(sel[k + 1]) THEN sel[k + 1]
    ELSE TalibPrefix \o NumberToString(LeadingInteger(sel[k]))

\* C22: the basic extractor gives one record per line that starts with an
\* integer followed by whitespace, in line order, numbered by that integer;
\* the name is the line with its numeric tokens stripped, trimmed, when that
\* has at least 3 characters, else the full text of the next selected line
\* when that line does not start with an integer, else the placeholder that
\* embeds the number
C22_BasicRecordPerLine ==
    [][TryBasic =>
          LET sel == SelectedLines(lines)
          IN  /\ Len(returned') = Len(sel)
              /\ \A k \in 1..Len(sel) :
                    /\ returned'[k].number = LeadingInteger(sel[k])
                    /\ returned'[k].name = NameOfSelected(sel, k)]_vars

\* the basic extractor returned a record named by its stripped line, followed
\* by a record named by the placeholder
C22_Witness ==
    /\ pc = "done"
    /\ Len(invoked) >= 1 /\ invoked[Len(invoked)] = "basic"
    /\ Len(returned) = 2
    /\ returned[1].name = NumeralsStripped(SelectedLines(lines)[1])
    /\ returned[2].name = TalibPrefix \o NumberToString(returned[2].number)

\* t is one or two digits, a period or comma, and one or two digits
PairShape(t) ==
    \E n \in 1..2 :
        /\ Len(t) - n - 1 \in 1..2
        /\ AllDigits(SubSeq(t, 1, n))
        /\ t[n + 1] \in {DOT, COMMA}
        /\ AllDigits(SubSeq(t, n + 2, Len(t)))

\* the end of the longest standalone decimal-pair token that starts at p, 0
\* when there is none
PairEnd(s, p) ==
    LET ends == {q \in p..(p + 4) :
                    /\ q <= Len(s)
                    /\ PairShape(SubSeq(s, p, q))
                    /\ Clear(s, p - 1)
                    /\ Clear(s, q + 1)}
    IN  IF ends = {} THEN 0 ELSE CHOOSE q \in ends : \A e \in ends : e <= q

\* the values of the decimal-pair tokens of s from position p on, left to
\* right
RECURSIVE PairValues(_, _)
PairValues(s, p) ==
    IF p > Len(s) THEN << >>
    ELSE IF PairEnd(s, p) # 0
    THEN <<ValueOfToken(SubSeq(s, p, PairEnd(s, p)))>> \o PairValues(s, PairEnd(s, p) + 1)
    ELSE PairValues(s, p + 1)

SlotNames == <<"fard1", "fard2", "fard3", "activities">>

\* slot j of the marks is the j-th of vals, null when there is none
SlotsFilledFrom(marks, vals) ==
    \A j \in 1..4 :
        marks[SlotNames[j]] = IF j <= Len(vals) THEN vals[j] ELSE NULL

\* C23 as stated: the k-th decimal-pair token of a student's line is the k-th
\* slot for k <= 4, later tokens are discarded and the other slots are null
C23_Original ==
    [][TryBasic =>
          \A k \in 1..Len(returned') :
              SlotsFilledFrom(returned'[k].marks,
                              PairValues(SelectedLines(lines)[k], 1))]_vars

\* C23: the k-th decimal-pair token of a student's line whose value lies in
\* [0, 20] is the k-th slot for k <= 4; tokens above 20 are passed over, those
\* beyond the 4th kept are discarded and the other slots are null
C23_PairsInRangeFillSlots ==
    [][TryBasic =>
          \A k \in 1..Len(returned') :
              SlotsFilledFrom(returned'[k].marks,
                              SelectSeq(PairValues(SelectedLines(lines)[k], 1),
                                        ValueInRange))]_vars

\* the basic extractor returned a record with its four slots filled from a
\* line of five decimal-pair tokens, and a record with no token
C23_Witness ==
    /\ pc = "done"
    /\ Len(invoked) >= 1 /\ invoked[Len(invoked)] = "basic"
    /\ Len(returned) = 2
    /\ Len(PairValues(SelectedLines(lines)[1], 1)) = 5
    /\ returned[1].marks.activities # NULL
    /\ returned[2].marks.fard1 = NULL

(***************************************************************************)
(* DataTable: the editable table of the review step                        *)
(***************************************************************************)
MaxEdits == 2

markTypes == <<"fard1", "fard2", "fard3", "activities">>

\* parseFloat(text), << >> for NaN and <<v>> for the number v: leading
\* blanks, an optional sign, digits and an optional fraction are read and the
\* rest of the text is ignored (texts with an exponent or "Infinity" are left
\* out of the inputs; the fraction is held to three digits)
parseFloat(text) ==
    LET b == RunEnd(text, 1, WhiteSpace)
        signed == b + 1 <= Len(text) /\ text[b + 1] \in {43, 45}
        from == IF signed THEN b + 2 ELSE b + 1
        d == RunEnd(text, from, Digits)
        f == IF d + 1 <= Len(text) /\ text[d + 1] = DOT
             THEN RunEnd(text, d + 2, Digits) ELSE d
        int == SubSeq(text, from, d)
        frac == SubSeq(text, d + 2, f)
        magnitude == ParseFloat(int, frac)
    IN  IF Len(int) = 0 /\ Len(frac) = 0 THEN << >>
        ELSE IF signed /\ text[b + 1] = 45 THEN <<0 - magnitude>>
        ELSE <<magnitude>>

\* faulty variant: the upper limit is not tested
MutvalidateMark(value) ==
    \/ value = << >>
    \/ /\ parseFloat(value) # << >>
       /\ parseFloat(value)[1] >= 0
validateMark(value) ==
    \/ value = << >>
    \/ /\ parseFloat(value) # << >>
       /\ parseFloat(value)[1] >= 0
       /\ parseFloat(value)[1] <= 20 * Scale

\* newData of updateMark (studentIndex is 0-based)
updateMark(students, studentIndex, markType, value) ==
    [students EXCEPT ![studentIndex + 1].marks[markType] = value]

\* handleMarkEdit: the value it returns, and the array it passes to
\* setEditableData and onDataUpdate when it calls updateMark
handleMarkEdit(students, studentIndex, markType, value) ==
    LET trimmedValue == Trim(value)
    IN  IF trimmedValue = << >>
        THEN [returns |-> TRUE, updates |-> TRUE,
              newData |-> updateMark(students, studentIndex, markType, NULL)]
        ELSE IF ~validateMark(trimmedValue)
        THEN [returns |-> FALSE, updates |-> FALSE, newData |-> students]
        ELSE [returns |-> TRUE, updates |-> TRUE,
              newData |-> updateMark(students, studentIndex, markType,
                                     ToFixed2(parseFloat(trimmedValue)[1]))]

\* const filteredData = editableData.filter(...)
filteredData(students, term) ==
    LET Shown(student) ==
            \/ Includes(ToLowerCase(student.name), ToLowerCase(term))
            \/ Includes(NumberToString(student.number), term)
    IN  SelectSeq(students, Shown)

\* "Ali", "Sara"
NameAli == <<65, 108, 105>>
NameSara == <<83, 97, 114, 97>>

\* the arrays the table is mounted with: two students, one mark above 20
EditRosters ==
    {<<[number |-> 1 * Scale, name |-> NameAli,
        marks |-> [fard1 |-> 14500, fard2 |-> NULL, fard3 |-> 61000, activities |-> NULL]],
       [number |-> 2 * Scale, name |-> NameSara,
        marks |-> [fard1 |-> 9000, fard2 |-> 17250, fard3 |-> NULL, activities |-> NULL]]>>}

\* "", "sa", "zz"
SearchTerms == {<< >>, <<115, 97>>, <<122, 122>>}

\* what is typed in a cell: " ", " 12.346 ", "12.35abc", "20.01", "-1", "abc"
EditInputs ==
    {<<32>>, <<32, 49, 50, 46, 51, 52, 54, 32>>, <<49, 50, 46, 51, 53, 97, 98, 99>>,
     <<50, 48, 46, 48, 49>>, <<45, 49>>, <<97, 98, 99>>}

InitEdit ==
    /\ PipelineIdle
    /\ MatchIdle
    /\ TextIdle
    /\ AppIdle
    /\ data \in EditRosters
    /\ editableData = data
    /\ searchTerm = << >>
    /\ editingCell = NoCell
    /\ tabTimer = NoCell
    /\ dataUpdates = 0

\* the rows on display
DisplayedRows == filteredData(editableData, searchTerm)

\* the Input of the cell being edited is rendered
InputShown ==
    /\ editingCell # NoCell
    /\ editingCell.studentIndex < Len(DisplayedRows)

\* onChange of the search box
ChangeSearch ==
    /\ \E term \in SearchTerms :
          /\ term # searchTerm
          /\ searchTerm' = term
    /\ UNCHANGED <<editableData, data, editingCell, tabTimer, dataUpdates>>
    /\ UNCHANGED <<pipelineVars, matchVars, textVars, appVars>>

\* onClick of the cell of displayed row index and slot markType
ClickCell ==
    /\ \E index \in 0..(Len(DisplayedRows) - 1), k \in 1..4 :
          /\ editingCell # [studentIndex |-> index, markType |-> markTypes[k]]
          /\ editingCell' = [studentIndex |-> index, markType |-> markTypes[k]]
    /\ UNCHANGED <<editableData, data, searchTerm, tabTimer, dataUpdates>>
    /\ UNCHANGED <<pipelineVars, matchVars, textVars, appVars>>

\* the state after handleMarkEdit(editingCell..., value) gave edit
Edited(edit) ==
    /\ editableData' = edit.newData
    /\ data' = edit.newData
    /\ dataUpdates' = IF edit.updates THEN dataUpdates + 1 ELSE dataUpdates

\* Enter in the Input, or its onBlur, with value typed
CommitEdit(value) ==
    /\ InputShown
    /\ dataUpdates < MaxEdits
    /\ LET edit == handleMarkEdit(editableData, editingCell.studentIndex,
                                  editingCell.markType, value)
       IN  /\ Edited(edit)
           /\ editingCell' = IF edit.returns THEN NoCell ELSE editingCell
    /\ UNCHANGED <<searchTerm, tabTimer>>
    /\ UNCHANGED <<pipelineVars, matchVars, textVars, appVars>>

EnterOrBlur == \E value \in EditInputs : CommitEdit(value)

\* Escape in the Input
PressEscape ==
    /\ InputShown
    /\ editingCell' = NoCell
    /\ UNCHANGED <<editableData, data, searchTerm, tabTimer, dataUpdates>>
    /\ UNCHANGED <<pipelineVars, matchVars, textVars, appVars>>

\* the cell Tab moves to from the cell (0-based index of the slot)
NextCell(cell, currentTypeIndex) ==
    IF currentTypeIndex = Len(markTypes) - 1
    THEN [studentIndex |-> cell.studentIndex + 1, markType |-> markTypes[1]]
    ELSE [studentIndex |-> cell.studentIndex, markType |-> markTypes[currentTypeIndex + 2]]

\* Tab in the Input with value typed
CommitTab(value) ==
    /\ InputShown
    /\ dataUpdates < MaxEdits
    /\ LET currentTypeIndex == (CHOOSE k \in 1..4 : markTypes[k] = editingCell.markType) - 1
           lastOfAll == /\ currentTypeIndex = Len(markTypes) - 1
                        /\ ~(editingCell.studentIndex < Len(editableData) - 1)
           edit == handleMarkEdit(editableData, editingCell.studentIndex,
                                  editingCell.markType, value)
       IN  /\ ~lastOfAll
           /\ Edited(edit)
           /\ tabTimer' = IF edit.returns THEN NextCell(editingCell, currentTypeIndex)
                          ELSE tabTimer
    /\ UNCHANGED <<searchTerm, editingCell>>
    /\ UNCHANGED <<pipelineVars, matchVars, textVars, appVars>>

PressTab == \E value \in EditInputs : CommitTab(value)

\* the 10 ms timer of Tab
TabTimerFires ==
    /\ tabTimer # NoCell
    /\ editingCell' = tabTimer
    /\ tabTimer' = NoCell
    /\ UNCHANGED <<editableData, data, searchTerm, dataUpdates>>
    /\ UNCHANGED <<pipelineVars, matchVars, textVars, appVars>>

NextEdit ==
    \/ ChangeSearch
    \/ ClickCell
    \/ EnterOrBlur
    \/ PressEscape
    \/ PressTab
    \/ TabTimerFires

SpecEdit == InitEdit /\ [][NextEdit]_vars

\* the position in students of the i-th (1-based) row on display
ShownPosition(students, term, i) ==
    LET Shown(k) == filteredData(<<students[k]>>, term) # << >>
    IN  CHOOSE k \in 1..Len(students) :
            /\ Shown(k)
            /\ Cardinality({j \in 1..k : Shown(j)}) = i

\* the step commits the typed value from the Input on display and the edit is
\* accepted
AcceptedCommit(value) ==
    /\ CommitEdit(value) \/ CommitTab(value)
    /\ handleMarkEdit(editableData, editingCell.studentIndex,
                      editingCell.markType, value).returns

\* C24: an accepted edit on a displayed row changes the given slot of the
\* student shown in that row, and no other slot, name or number of any
\* student, also while a search term filters the rows on display
C24_EditChangesShownStudentOnly ==
    [][\A value \in EditInputs :
          (editableData' # editableData /\ AcceptedCommit(value)) =>
              LET shown == ShownPosition(editableData, searchTerm,
                                         editingCell.studentIndex + 1)
                  written == handleMarkEdit(editableData, editingCell.studentIndex,
                                 editingCell.markType, value
                             ).newData[editingCell.studentIndex + 1
                             ].marks[editingCell.markType]
              IN  /\ Len(editableData') = Len(editableData)
                  /\ editableData'[shown].marks[editingCell.markType] = written
                  /\ \A p \in 1..Len(editableData) :
                        /\ editableData'[p].number = editableData[p].number
                        /\ editableData'[p].name = editableData[p].name
                        /\ \A k \in 1..4 :
                              (p # shown \/ markTypes[k] # editingCell.markType) =>
                                  editableData'[p].marks[markTypes[k]]
                                      = editableData[p].marks[markTypes[k]]]_vars

\* C30: handleMarkEdit accepts an input only when it is empty after trimming,
\* and then the slot becomes null, or parses to a number in [0, 20], and then
\* the slot becomes that number rounded to 2 decimals; any other input makes
\* it return false with the data unchanged and onDataUpdate not called, so an
\* edited slot is null or within [0, 20]
C30_EditAcceptsOnlyValidMarks ==
    [][\A value \in EditInputs :
          (searchTerm' = searchTerm /\ editingCell # NoCell
              /\ (CommitEdit(value) \/ CommitTab(value))) =>
              LET p == editingCell.studentIndex + 1
                  m == editingCell.markType
                  number == parseFloat(Trim(value))
                  returns == handleMarkEdit(editableData, editingCell.studentIndex,
                                            m, value).returns
              IN  IF Trim(value) = << >>
                  THEN /\ returns
                       /\ editableData'[p].marks[m] = NULL
                       /\ dataUpdates' = dataUpdates + 1
                  ELSE IF number # << >> /\ number[1] >= 0 /\ number[1] <= 20000
                  THEN /\ returns
                       /\ editableData'[p].marks[m] = Round2(number[1])
                       /\ editableData'[p].marks[m] \in 0..20000
                       /\ dataUpdates' = dataUpdates + 1
                  ELSE /\ ~returns
                       /\ editableData' = editableData
                       /\ data' = data
                       /\ dataUpdates' = dataUpdates]_vars

\* two edits were accepted: a slot holds 12.35, typed as " 12.346 ", and a
\* slot that held a mark is null
C30_Witness ==
    /\ dataUpdates = 2
    /\ \E p \in 1..Len(editableData), k \in 1..4 :
          editableData[p].marks[markTypes[k]] = 12350
    /\ \E roster \in EditRosters, p \in 1..Len(editableData), k \in 1..4 :
          /\ roster[p].marks[markTypes[k]] # NULL
          /\ roster[p].name = editableData[p].name
          /\ roster[p].number = editableData[p].number
          /\ editableData[p].marks[markTypes[k]] = NULL

(***************************************************************************)
(* App: steps, extracted data, pending promises and timers                 *)
(***************************************************************************)
MaxProcessing == 2

\* extractedData is held as "null", "empty" (an array of no student) or
\* "students" (an array of at least one student)
OcrResults == {"empty", "students"}

InitApp ==
    /\ PipelineIdle
    /\ MatchIdle
    /\ TextIdle
    /\ EditIdle
    /\ AppIdle

\* the Cancel and Confirm buttons of ReviewConfirmStep are rendered and enabled
ReviewButtonsShown == extractedData = "students" /\ ~isSaving

\* handleImageUpload(file) with a file
UploadImage ==
    /\ ~selectedImage
    /\ ~isProcessing
    /\ selectedImage' = TRUE
    /\ error' = FALSE
    /\ UNCHANGED <<isProcessing, extractedData, currentStep, isSaving,
                   showMarkTypeDialog, ocrPending, advanceTimers, validatePending,
                   insertPending, resetTimers, processed>>
    /\ UNCHANGED <<pipelineVars, matchVars, textVars, editVars>>

\* processImage up to its await
ProcessImage ==
    /\ selectedImage
    /\ ~isProcessing
    /\ processed < MaxProcessing
    /\ isProcessing' = TRUE
    /\ error' = FALSE
    /\ ocrPending' = ocrPending + 1
    /\ processed' = processed + 1
    /\ UNCHANGED <<selectedImage, extractedData, currentStep, isSaving,
                   showMarkTypeDialog, advanceTimers, validatePending,
                   insertPending, resetTimers>>
    /\ UNCHANGED <<pipelineVars, matchVars, textVars, editVars>>

\* processImage after ocrService.processImage resolved
OcrResolves ==
    /\ ocrPending > 0
    /\ ocrPending' = ocrPending - 1
    /\ \E extractedMarks \in OcrResults : extractedData' = extractedMarks
    /\ advanceTimers' = advanceTimers + 1
    /\ UNCHANGED <<selectedImage, isProcessing, currentStep, isSaving,
                   showMarkTypeDialog, error, validatePending, insertPending,
                   resetTimers, processed>>
    /\ UNCHANGED <<pipelineVars, matchVars, textVars, editVars>>

\* the catch block of processImage
OcrRejects ==
    /\ ocrPending > 0
    /\ ocrPending' = ocrPending - 1
    /\ error' = TRUE
    /\ isProcessing' = FALSE
    /\ UNCHANGED <<selectedImage, extractedData, currentStep, isSaving,
                   showMarkTypeDialog, advanceTimers, validatePending,
                   insertPending, resetTimers, processed>>
    /\ UNCHANGED <<pipelineVars, matchVars, textVars, editVars>>

\* advanceToStep: the new currentStep
advanceToStep(step) == step

\* the callback of the 1000 ms timer of processImage
AdvanceTimerFires ==
    /\ advanceTimers > 0
    /\ advanceTimers' = advanceTimers - 1
    /\ currentStep' = advanceToStep("ReviewConfirm")
    /\ isProcessing' = FALSE
    /\ UNCHANGED <<selectedImage, extractedData, isSaving, showMarkTypeDialog,
                   error, ocrPending, validatePending, insertPending, resetTimers,
                   processed>>
    /\ UNCHANGED <<pipelineVars, matchVars, textVars, editVars>>

\* resetApp
resetApp ==
    /\ selectedImage' = FALSE
    /\ extractedData' = "null"
    /\ currentStep' = "ImageProcessing"

\* onCancel of ReviewConfirmStep
Cancel ==
    /\ ReviewButtonsShown
    /\ resetApp
    /\ UNCHANGED <<isProcessing, isSaving, showMarkTypeDialog, error, ocrPending,
                   advanceTimers, validatePending, insertPending, resetTimers,
                   processed>>
    /\ UNCHANGED <<pipelineVars, matchVars, textVars, editVars>>

\* handleConfirmData up to its await
ConfirmData ==
    /\ ReviewButtonsShown
    /\ isSaving' = TRUE
    /\ validatePending' = validatePending + 1
    /\ UNCHANGED <<selectedImage, isProcessing, extractedData, currentStep,
                   showMarkTypeDialog, error, ocrPending, advanceTimers,
                   insertPending, resetTimers, processed>>
    /\ UNCHANGED <<pipelineVars, matchVars, textVars, editVars>>

\* handleConfirmData after validateExcelFile resolved or rejected
ValidateSettles ==
    /\ validatePending > 0
    /\ validatePending' = validatePending - 1
    /\ isSaving' = FALSE
    /\ \E isValidFile \in BOOLEAN :
          IF isValidFile
          THEN showMarkTypeDialog' = TRUE /\ error' = error
          ELSE showMarkTypeDialog' = showMarkTypeDialog /\ error' = TRUE
    /\ UNCHANGED <<selectedImage, isProcessing, extractedData, currentStep,
                   ocrPending, advanceTimers, insertPending, resetTimers, processed>>
    /\ UNCHANGED <<pipelineVars, matchVars, textVars, editVars>>

\* handleMarkTypeSelected up to its await, or to its catch block when there
\* is no data
MarkTypeSelected ==
    /\ showMarkTypeDialog
    /\ ~isSaving
    /\ IF extractedData = "null"
       THEN /\ error' = TRUE
            /\ isSaving' = FALSE
            /\ showMarkTypeDialog' = FALSE
            /\ insertPending' = insertPending
       ELSE /\ isSaving' = TRUE
            /\ insertPending' = insertPending + 1
            /\ UNCHANGED <<error, showMarkTypeDialog>>
    /\ UNCHANGED <<selectedImage, isProcessing, extractedData, currentStep,
                   ocrPending, advanceTimers, validatePending, resetTimers,
                   processed>>
    /\ UNCHANGED <<pipelineVars, matchVars, textVars, editVars>>

\* handleMarkTypeSelected after insertMarks resolved
InsertResolves ==
    /\ insertPending > 0
    /\ insertPending' = insertPending - 1
    /\ \E notFound \in BOOLEAN : error' = notFound
    /\ resetTimers' = resetTimers + 1
    /\ UNCHANGED <<selectedImage, isProcessing, extractedData, currentStep,
                   isSaving, showMarkTypeDialog, ocrPending, advanceTimers,
                   validatePending, processed>>
    /\ UNCHANGED <<pipelineVars, matchVars, textVars, editVars>>

\* the catch block of handleMarkTypeSelected after insertMarks rejected
InsertRejects ==
    /\ insertPending > 0
    /\ insertPending' = insertPending - 1
    /\ error' = TRUE
    /\ isSaving' = FALSE
    /\ showMarkTypeDialog' = FALSE
    /\ UNCHANGED <<selectedImage, isProcessing, extractedData, currentStep,
                   ocrPending, advanceTimers, validatePending, resetTimers,
                   processed>>
    /\ UNCHANGED <<pipelineVars, matchVars, textVars, editVars>>

\* the callback of the 1500 ms timer of handleMarkTypeSelected
ResetTimerFires ==
    /\ resetTimers > 0
    /\ resetTimers' = resetTimers - 1
    /\ showMarkTypeDialog' = FALSE
    /\ resetApp
    /\ isSaving' = FALSE
    /\ UNCHANGED <<isProcessing, error, ocrPending, advanceTimers,
                   validatePending, insertPending, processed>>
    /\ UNCHANGED <<pipelineVars, matchVars, textVars, editVars>>

\* onClose of MarkTypeDialog
CloseDialog ==
    /\ showMarkTypeDialog
    /\ showMarkTypeDialog' = FALSE
    /\ UNCHANGED <<selectedImage, isProcessing, extractedData, currentStep,
                   isSaving, error, ocrPending, advanceTimers, validatePending,
                   insertPending, resetTimers, processed>>
    /\ UNCHANGED <<pipelineVars, matchVars, textVars, editVars>>

NextApp ==
    \/ UploadImage
    \/ ProcessImage
    \/ OcrResolves
    \/ OcrRejects
    \/ AdvanceTimerFires
    \/ Cancel
    \/ ConfirmData
    \/ ValidateSettles
    \/ MarkTypeSelected
    \/ InsertResolves
    \/ InsertRejects
    \/ ResetTimerFires
    \/ CloseDialog

SpecApp == InitApp /\ [][NextApp]_vars

\* C29: whenever currentStep is ReviewConfirm the extracted data is not null,
\* in every interleaving of the OCR completion and its 1000 ms advance, the
\* Cancel button and the 1500 ms reset that follows an insertion of marks
C29_ReviewStepHasData ==
    currentStep = "ReviewConfirm" => extractedData # "null"

====
